---- MODULE Spec2Model ----
(***************************************************************************)
(* Grid interaction and synchronization core of the lead CRM.             *)
(* Strings are sequences of one-character strings, so that trim,          *)
(* toLowerCase and includes are computed and not assumed.                 *)
(***************************************************************************)
EXTENDS Integers, Sequences, FiniteSets, TLC

VARIABLES
  store,        \* row store: table leads, a function from the live ids to rows
  storeCols,    \* dynamic columns that exist in table leads
  nextId,       \* next identifier the store hands out
  notif,        \* change notifications on their way to the view
  leads,        \* React state leads: the local record snapshot
  fields,       \* React state fields: the local field definitions
  loading,      \* React state loading
  searchQuery,  \* React state searchQuery
  prefs,        \* React state prefs
  undoStack,    \* React state undoStack
  redoStack,    \* React state redoStack
  tasks,        \* async handlers suspended at an await
  reloads,      \* loadData calls in flight
  grid,         \* React state of the grid: selection, ranges, drag flags, filters, sorts
  obs           \* observations of the run the properties are stated on

vars == <<store, storeCols, nextId, notif, leads, fields, loading, searchQuery,
          prefs, undoStack, redoStack, tasks, reloads, grid, obs>>

-----------------------------------------------------------------------------
(* Bounds *)
MaxId == 3          \* identifiers the store can hand out
MaxOps == 3         \* paste, edit, undo and redo calls of the user (Spec, SpecRace)
MaxTasks == 2       \* async handlers suspended at the same time (SpecRace)
MaxReloads == 1     \* loadData calls in flight at the same time
MaxNotif == 1       \* undelivered notifications that are told apart
MaxRemote == 1      \* writes of other editors
MaxPastes == 1      \* paste and delete calls of the user (SpecPaste)
MaxHistory == 52    \* edit and undo calls of the user (SpecCap)

-----------------------------------------------------------------------------
(* Strings *)
NULL == <<"NULL">>

UpperChars == <<"A","B","C","D","E","F","G","H","I","J","K","L","M",
                "N","O","P","Q","R","S","T","U","V","W","X","Y","Z">>
LowerChars == <<"a","b","c","d","e","f","g","h","i","j","k","l","m",
                "n","o","p","q","r","s","t","u","v","w","x","y","z">>

LowerChar(ch) ==
  IF \E i \in 1..26 : UpperChars[i] = ch
  THEN LowerChars[CHOOSE i \in 1..26 : UpperChars[i] = ch]
  ELSE ch

toLowerCase(s) == [i \in 1..Len(s) |-> LowerChar(s[i])]

IsWhite(ch) == ch \in {" ", "\t", "\n", "\r"}

RECURSIVE trimStart(_)
trimStart(s) ==
  IF s # <<>> /\ IsWhite(Head(s)) THEN trimStart(Tail(s)) ELSE s

RECURSIVE trimEnd(_)
trimEnd(s) ==
  IF s # <<>> /\ IsWhite(s[Len(s)]) THEN trimEnd(SubSeq(s, 1, Len(s) - 1)) ELSE s

trim(s) == trimEnd(trimStart(s))

includes(hay, q) ==
  \E i \in 0..(Len(hay) - Len(q)) : SubSeq(hay, i + 1, i + Len(q)) = q

RECURSIVE join(_, _)
join(parts, sep) ==
  IF parts = <<>> THEN <<>>
  ELSE IF Len(parts) = 1 THEN parts[1]
  ELSE parts[1] \o sep \o join(Tail(parts), sep)

SeqFilter(s, Keep(_)) ==
  LET F[i \in 0..Len(s)] ==
        IF i = 0 THEN <<>>
        ELSE IF Keep(s[i]) THEN Append(F[i - 1], s[i]) ELSE F[i - 1]
  IN F[Len(s)]

Range(s) == {s[i] : i \in 1..Len(s)}

-----------------------------------------------------------------------------
(* Field keys and field definitions *)
K_name == "name"
K_email == "email"
K_phone == "phone"
K_website == "website"
K_outreach_method == "outreach_method"
K_tag == "tag"

\* the characters of a field key
KeyChars(k) ==
  CASE k = "name" -> <<"n","a","m","e">>
    [] k = "email" -> <<"e","m","a","i","l">>
    [] k = "phone" -> <<"p","h","o","n","e">>
    [] k = "website" -> <<"w","e","b","s","i","t","e">>
    [] k = "outreach_method" ->
         <<"o","u","t","r","e","a","c","h","_","m","e","t","h","o","d">>
    [] k = "tag" -> <<"t","a","g">>

baseColumns == {K_name, K_email, K_phone, K_website, K_outreach_method}

AllKeys == baseColumns \cup {K_tag}

\* table lead_fields, in created_at order
LeadFields ==
  << [field_key |-> K_name, label |-> <<"N","a","m","e">>],
     [field_key |-> K_email, label |-> <<"E","m","a","i","l">>],
     [field_key |-> K_phone, label |-> <<"P","h","o","n","e">>],
     [field_key |-> K_website, label |-> <<"W","e","b","s","i","t","e">>],
     [field_key |-> K_outreach_method,
      label |-> <<"O","u","t","r","e","a","c","h"," ","M","e","t","h","o","d">>],
     [field_key |-> K_tag, label |-> <<"T","a","g">>] >>

NewLeadName == <<"N","e","w"," ","L","e","a","d">>

-----------------------------------------------------------------------------
(* Row store: table leads *)
Ids == 1..MaxId

EmptyVals == [k \in AllKeys |-> NULL]

\* a column of table leads exists: the base columns always, a dynamic one
\* once add_lead_column created it
ColumnExists(cols, k) == k \in baseColumns \/ k \in cols

\* rows in the order of select('*').order('created_at'): identifiers are
\* handed out in creation order and a re-inserted row keeps its created_at
RECURSIVE SortedIds(_)
SortedIds(S) ==
  IF S = {} THEN <<>>
  ELSE LET m == CHOOSE x \in S : \A y \in S : x <= y
       IN <<m>> \o SortedIds(S \ {m})

SelectLeads(st) ==
  LET ids == SortedIds(DOMAIN st)
  IN [i \in 1..Len(ids) |-> [id |-> ids[i], vals |-> st[ids[i]]]]

\* update(payload).eq('id', id): rejected as a whole when it names a column
\* the table lacks or sets name to null
UpdateAccepted(cols, payload) ==
  /\ \A k \in DOMAIN payload : ColumnExists(cols, k)
  /\ (K_name \in DOMAIN payload => payload[K_name] # NULL)

StoreUpdate(st, id, payload) ==
  IF id \in DOMAIN st
  THEN [st EXCEPT ![id] = [k \in AllKeys |->
          IF k \in DOMAIN payload THEN payload[k] ELSE st[id][k]]]
  ELSE st

\* insert(rows): one statement, rejected as a whole; a row is [id, vals]
\* where id = 0 asks the store for a fresh identifier
InsertAccepted(st, cols, rows) ==
  /\ \A i \in 1..Len(rows) :
       /\ \A k \in DOMAIN rows[i].vals : ColumnExists(cols, k)
       /\ K_name \in DOMAIN rows[i].vals
       /\ rows[i].vals[K_name] # NULL
       /\ rows[i].id \notin DOMAIN st
  /\ \A i, j \in 1..Len(rows) : (i # j /\ rows[i].id # 0) => rows[i].id # rows[j].id

InsertedId(rows, i, nid) ==
  IF rows[i].id # 0 THEN rows[i].id
  ELSE nid + Cardinality({j \in 1..(i - 1) : rows[j].id = 0})

FreshCount(rows) == Cardinality({j \in 1..Len(rows) : rows[j].id = 0})

\* the rows as the store returns them from insert(...).select()
InsertedRows(rows, nid) ==
  [i \in 1..Len(rows) |->
     [id |-> InsertedId(rows, i, nid),
      vals |-> [k \in AllKeys |->
                  IF k \in DOMAIN rows[i].vals THEN rows[i].vals[k] ELSE NULL]]]

StoreInsert(st, rows, nid) ==
  LET data == InsertedRows(rows, nid)
      newIds == {data[i].id : i \in 1..Len(data)}
  IN [id \in (DOMAIN st) \cup newIds |->
        IF id \in newIds
        THEN (CHOOSE d \in Range(data) : d.id = id).vals
        ELSE st[id]]

StoreDelete(st, ids) == [id \in (DOMAIN st) \ ids |-> st[id]]

Min(a, b) == IF a < b THEN a ELSE b

\* a change of at least one row is notified to the subscribers of the table
Notify(n, changed) == IF changed THEN Min(n + 1, MaxNotif) ELSE n

-----------------------------------------------------------------------------
(* Derived view state *)
Truthy(v) == v # NULL /\ v # <<>>

filteredLeads(ls, sq) ==
  LET q == toLowerCase(trim(sq))
      Hay(lead) ==
        toLowerCase(join(
          SeqFilter(<<lead.vals[K_name], lead.vals[K_email], lead.vals[K_phone],
                      lead.vals[K_website], lead.vals[K_outreach_method]>>, Truthy),
          <<" ">>))
      Match(lead) == includes(Hay(lead), q)
  IN IF q = <<>> THEN ls ELSE SeqFilter(ls, Match)

orderedFields(flds, p) ==
  LET fieldKeys == [i \in 1..Len(flds) |-> flds[i].field_key]
      order == IF Len(p.order) > 0 THEN p.order ELSE fieldKeys
      Known(key) == \E i \in 1..Len(flds) : flds[i].field_key = key
      Def(key) == flds[CHOOSE i \in 1..Len(flds) : flds[i].field_key = key]
      orderedKeys == SeqFilter(order, Known)
      ordered == [i \in 1..Len(orderedKeys) |-> Def(orderedKeys[i])]
      Unlisted(f) == f.field_key \notin Range(order)
      missing == SeqFilter(flds, Unlisted)
      Shown(f) == f.field_key \notin Range(p.hidden)
  IN SeqFilter(ordered \o missing, Shown)

-----------------------------------------------------------------------------
(* Matrix-apply: the payloads and the change tuples one call builds.       *)
(* Rows and columns are 0-based as in the code; sequences are 1-based.     *)

RECURSIVE Flatten(_)
Flatten(ss) == IF ss = <<>> THEN <<>> ELSE Head(ss) \o Flatten(Tail(ss))

\* variant: the columns beyond the last one wrap to the first
TargetColumn_wrap(startCol, c, ncols) == (startCol + c) % ncols

\* the column a matrix cell goes to, -1 when the inner loop has left the grid
TargetColumn(startCol, c, ncols) ==
  IF startCol + c >= ncols THEN -1 ELSE startCol + c

\* value.length > 0 ? value : null, on the trimmed cell
CellValue(cell) ==
  LET value == trim(cell) IN IF Len(value) > 0 THEN value ELSE NULL

\* the cells of one matrix row that are written, in column order
WrittenCells(of, startCol, mrow) ==
  SeqFilter([c \in 1..Len(mrow) |-> c - 1],
            LAMBDA c : TargetColumn(startCol, c, Len(of)) >= 0)

updatesRow(of, startCol, mrow) ==
  LET cs == WrittenCells(of, startCol, mrow)
      KeyOf(c) == of[TargetColumn(startCol, c, Len(of)) + 1].field_key
      keys == {KeyOf(cs[i]) : i \in 1..Len(cs)}
      \* a later assignment to the same key overwrites the earlier one
      LastCell(k) == cs[CHOOSE i \in 1..Len(cs) :
                          /\ KeyOf(cs[i]) = k
                          /\ \A j \in (i + 1)..Len(cs) : KeyOf(cs[j]) # k]
  IN [k \in keys |-> CellValue(mrow[LastCell(k) + 1])]

\* Object.entries(updatesRow): the keys in the order they were first assigned
EntryKeys(of, startCol, mrow) ==
  LET cs == WrittenCells(of, startCol, mrow)
      KeyOf(c) == of[TargetColumn(startCol, c, Len(of)) + 1].field_key
      ks == [i \in 1..Len(cs) |-> KeyOf(cs[i])]
      F[i \in 0..Len(ks)] ==
        IF i = 0 THEN <<>>
        ELSE IF ks[i] \in Range(F[i - 1]) THEN F[i - 1] ELSE Append(F[i - 1], ks[i])
  IN F[Len(ks)]

\* variant: the auto-add preference is not consulted
RowAction_ignorePref(exists, autoAdd) ==
  IF exists THEN "update" ELSE "insert"

\* if (targetRow) ... else if (prefs.autoAddRows) ...
RowAction(exists, autoAdd) ==
  IF exists THEN "update" ELSE IF autoAdd THEN "insert" ELSE "skip"

\* what one matrix row contributes
RowPlan(fl, of, autoAdd, startRow, startCol, matrix, r) ==
  LET rowIndex == startRow + r
      ur == updatesRow(of, startCol, matrix[r + 1])
      ek == EntryKeys(of, startCol, matrix[r + 1])
      exists == rowIndex >= 0 /\ rowIndex < Len(fl)
      targetRow == fl[rowIndex + 1]
      todo == RowAction(exists, autoAdd)
      nothing == [changes |-> <<>>, updates |-> <<>>, inserts |-> <<>>]
  IN CASE todo = "update" /\ DOMAIN ur # {} ->
            [changes |-> [i \in 1..Len(ek) |->
                            [id |-> targetRow.id, fieldKey |-> ek[i],
                             prev |-> targetRow.vals[ek[i]], next |-> ur[ek[i]]]],
             updates |-> << [id |-> targetRow.id, payload |-> ur] >>,
             inserts |-> <<>>]
       [] todo = "insert" ->
            [changes |-> <<>>, updates |-> <<>>,
             inserts |-> << [id |-> 0,
                             vals |-> [k \in {K_name, K_outreach_method} \cup DOMAIN ur |->
                                         IF k \in DOMAIN ur THEN ur[k]
                                         ELSE IF k = K_name THEN NewLeadName
                                         ELSE NULL]] >>]
       [] OTHER -> nothing

applyMatrixPlan(fl, of, autoAdd, startRow, startCol, matrix) ==
  LET rp == [r \in 1..Len(matrix) |->
               RowPlan(fl, of, autoAdd, startRow, startCol, matrix, r - 1)]
  IN [changes |-> Flatten([r \in 1..Len(matrix) |-> rp[r].changes]),
      updates |-> Flatten([r \in 1..Len(matrix) |-> rp[r].updates]),
      inserts |-> Flatten([r \in 1..Len(matrix) |-> rp[r].inserts])]

\* the dynamic columns applyMatrix asks the store to create, in field order
EnsureList(of) ==
  LET keys == [i \in 1..Len(of) |-> of[i].field_key]
  IN SeqFilter(keys, LAMBDA k : k \notin baseColumns)

-----------------------------------------------------------------------------
(* Header-mapped paste *)

\* fieldMap.get(header): the index of the last field whose key or label,
\* lower-cased, equals the header; -1 when there is none
FieldIndexOf(of, header) ==
  LET hits == {i \in 1..Len(of) :
                 \/ toLowerCase(KeyChars(of[i].field_key)) = header
                 \/ toLowerCase(of[i].label) = header}
  IN IF hits = {} THEN -1
     ELSE (CHOOSE i \in hits : \A j \in hits : j <= i) - 1

columnMapOf(of, matrix) ==
  [j \in 1..Len(matrix[1]) |-> FieldIndexOf(of, toLowerCase(trim(matrix[1][j])))]

matchCountOf(of, matrix) ==
  LET columnMap == columnMapOf(of, matrix)
  IN Cardinality({j \in 1..Len(columnMap) : columnMap[j] >= 0})

\* one data row laid out on the visible columns
MappedRow(of, columnMap, row) ==
  [m \in 1..Len(of) |->
     LET src == {idx \in 1..Len(row) :
                   idx <= Len(columnMap) /\ columnMap[idx] = m - 1}
     IN IF src = {} THEN <<>>
        ELSE row[CHOOSE idx \in src : \A o \in src : o <= idx]]

\* the (startCol, matrix) applyMatrixWithHeaderMap hands to applyMatrix
applyMatrixWithHeaderMap(of, matrix) ==
  IF Len(matrix) < 2 THEN [startCol |-> 0, matrix |-> matrix]
  ELSE IF matchCountOf(of, matrix) < 2 THEN [startCol |-> 0, matrix |-> matrix]
  ELSE [startCol |-> 0,
        matrix |-> [i \in 1..(Len(matrix) - 1) |->
                      MappedRow(of, columnMapOf(of, matrix), matrix[i + 1])]]

-----------------------------------------------------------------------------
(* Direct cell edits and undo/redo: the payloads they build *)

\* table outreach_methods as the CRM hands it to the view
outreachOptions ==
  << [key |-> <<"e","m","a","i","l">>, label |-> <<"E","m","a","i","l">>],
     [key |-> <<"s","m","s">>, label |-> <<"S","M","S">>] >>

\* the value a cell edit stores: an outreach method typed by key or label is
\* replaced by its key; the text is not trimmed
EditedValue(fieldKey, data) ==
  LET hits == {i \in 1..Len(outreachOptions) :
                 \/ toLowerCase(outreachOptions[i].key) = toLowerCase(data)
                 \/ toLowerCase(outreachOptions[i].label) = toLowerCase(data)}
      nextValue == IF fieldKey = K_outreach_method /\ hits # {}
                   THEN outreachOptions[CHOOSE i \in hits : \A j \in hits : i <= j].key
                   ELSE data
  IN IF Len(nextValue) > 0 THEN nextValue ELSE NULL

\* the edits that address a lead and a field of the view
ValidEdits(fl, of, edits) ==
  SeqFilter(edits, LAMBDA e : e.row < Len(fl) /\ e.col < Len(of))

\* per record, the last value assigned to each field key
PayloadsById(entries) ==
  LET ids == {entries[i].id : i \in 1..Len(entries)}
      KeysOf(id) == {entries[i].fieldKey : i \in {j \in 1..Len(entries) : entries[j].id = id}}
      LastOf(id, k) == CHOOSE i \in 1..Len(entries) :
                         /\ entries[i].id = id /\ entries[i].fieldKey = k
                         /\ \A j \in (i + 1)..Len(entries) :
                              ~(entries[j].id = id /\ entries[j].fieldKey = k)
  IN {[id |-> id, payload |-> [k \in KeysOf(id) |-> entries[LastOf(id, k)].value]] : id \in ids}

cellsEditedPlan(fl, of, edits) ==
  LET es == ValidEdits(fl, of, edits)
      Lead(e) == fl[e.row + 1]
      Key(e) == of[e.col + 1].field_key
  IN [changes |-> [i \in 1..Len(es) |->
                     [id |-> Lead(es[i]).id, fieldKey |-> Key(es[i]),
                      prev |-> Lead(es[i]).vals[Key(es[i])],
                      next |-> EditedValue(Key(es[i]), es[i].data)]],
      updates |-> PayloadsById([i \in 1..Len(es) |->
                     [id |-> Lead(es[i]).id, fieldKey |-> Key(es[i]),
                      value |-> EditedValue(Key(es[i]), es[i].data)]])]

\* variant: the value before the change is written in both directions
UndoValue_prevOnly(change, useNext) == change.prev

\* payload[change.fieldKey] = useNext ? change.next : change.prev
UndoValue(change, useNext) == IF useNext THEN change.next ELSE change.prev

undoPayloads(action, useNext) ==
  PayloadsById([i \in 1..Len(action.changes) |->
                  [id |-> action.changes[i].id, fieldKey |-> action.changes[i].fieldKey,
                   value |-> UndoValue(action.changes[i], useNext)]])

\* redo re-inserts the rows as they came back from the insert, identifiers included
RedoRows(action) ==
  [i \in 1..Len(action.insertedRows) |->
     [id |-> action.insertedRows[i].id, vals |-> action.insertedRows[i].vals]]

UndoIds(action) == {action.insertedRows[i].id : i \in 1..Len(action.insertedRows)}

-----------------------------------------------------------------------------
(* Initial state: the view is mounted and its first loadData is in flight *)

InitStore ==
  (1 :> [EmptyVals EXCEPT ![K_name] = <<"a">>]) @@
  (2 :> [EmptyVals EXCEPT ![K_name] = <<"b">>, ![K_email] = <<"b">>])

InitPrefs ==
  [order |-> <<>>, hidden |-> <<K_phone, K_website, K_outreach_method>>,
   autoAddRows |-> TRUE, pasteHeaderMap |-> FALSE]

NoCall == [via |-> "none"]

InitObs ==
  [track |-> "none", pre |-> <<>>, post |-> <<>>,
   ensured |-> {}, unensured |-> FALSE, remote |-> 0, noop |-> "none", ops |-> 0,
   clip |-> "none", confirm |-> "none", text |-> <<>>,
   source |-> [x |-> 0, y |-> 0, width |-> 0, height |-> 0],
   moved |-> [from |-> 0, to |-> 0, before |-> <<>>]]

SentReload == [stage |-> "sent", snap |-> <<>>]

\* the grid before any click: selection null, ranges [], no drag, no
\* selected cell, filters {}, sorts [], no ticked row (rows: the ticked row
\* numbers), bulkMethod '', editingCell null and editValue ''; del holds the
\* ranges a running Delete has still to clear and the views its closure
\* reads, pointer is what the mouse button was pressed on and still holds,
\* events counts the mouse and key events
NoRange == [start |-> [row |-> -1, col |-> -1], end |-> [row |-> -1, col |-> -1]]

InitGrid ==
  [selection |-> NoRange, ranges |-> <<>>, isSelecting |-> FALSE, isFilling |-> FALSE,
   fillValue |-> NULL, selectionMode |-> "null",
   selectedCell |-> [leadId |-> 0, fieldKey |-> ""],
   filters |-> [k \in {} |-> <<>>], sorts |-> <<>>,
   rows |-> {}, ticked |-> {}, bulkMethod |-> <<>>,
   editingCell |-> [leadId |-> 0, fieldKey |-> ""], editValue |-> <<>>,
   edited |-> [outcome |-> "none", redo |-> 0],
   del |-> [rest |-> <<>>, of |-> <<>>, fl |-> <<>>], pointer |-> "up", events |-> 0]

\* setIsSelecting(false), setIsFilling(false), setFillValue(null),
\* setSelectionMode(null)
dragEnded(g) ==
  [g EXCEPT !.isSelecting = FALSE, !.isFilling = FALSE, !.fillValue = NULL,
            !.selectionMode = "null"]

Init ==
  /\ store = InitStore
  /\ storeCols = {}
  /\ nextId = 3
  /\ notif = 0
  /\ leads = <<>>
  /\ fields = <<>>
  /\ loading = TRUE
  /\ searchQuery = <<>>
  /\ prefs = InitPrefs
  /\ undoStack = <<>>
  /\ redoStack = <<>>
  /\ tasks = <<>>
  /\ reloads = <<SentReload>>
  /\ grid = InitGrid
  /\ obs = InitObs

-----------------------------------------------------------------------------
(* Helpers of the actions *)

RemoveAt(s, i) == SubSeq(s, 1, i - 1) \o SubSeq(s, i + 1, Len(s))

Front(s) == SubSeq(s, 1, Len(s) - 1)

\* variant: the oldest entry is taken instead of the newest
Last_oldest(s) == s[1]

Last(s) == s[Len(s)]

\* the grid and the toolbar are rendered only when loading is false
UserReady == ~loading

TaskRoom(n) == Len(tasks) < n

ReloadRoom == Len(reloads) < MaxReloads

OpsRoom(n) == obs.ops < n

\* some payload names a dynamic column for which no add_lead_column call of
\* this session has completed
Unensured(payloads, ensured) ==
  \E p \in payloads : \E k \in DOMAIN p : k \notin baseColumns /\ k \notin ensured

PayloadsOf(updates) == {u.payload : u \in updates}

RowVals(rows) == {rows[i].vals : i \in 1..Len(rows)}

Off(o) == [o EXCEPT !.track = "off", !.pre = <<>>, !.post = <<>>]

-----------------------------------------------------------------------------
(* loadData and the realtime subscription *)

\* the select of a loadData call is executed by the store
ReloadSelect(j) ==
  /\ j \in 1..Len(reloads)
  /\ reloads[j].stage = "sent"
  /\ reloads' = [reloads EXCEPT ![j] = [stage |-> "read", snap |-> SelectLeads(store)]]
  /\ UNCHANGED <<grid, store, storeCols, nextId, notif, leads, fields, loading, searchQuery,
                 prefs, undoStack, redoStack, tasks, obs>>

\* the response of a loadData call arrives: setLeads, setFields, setLoading(false)
ReloadReturn(j) ==
  /\ j \in 1..Len(reloads)
  /\ reloads[j].stage = "read"
  /\ leads' = reloads[j].snap
  /\ fields' = LeadFields
  /\ loading' = FALSE
  /\ reloads' = RemoveAt(reloads, j)
  /\ UNCHANGED <<grid, store, storeCols, nextId, notif, searchQuery, prefs, undoStack,
                 redoStack, tasks, obs>>

\* a postgres_changes event reaches the view: loadData()
NotifiedWithin(n) ==
  /\ notif > 0
  /\ Len(reloads) < n
  /\ notif' = notif - 1
  /\ reloads' = Append(reloads, SentReload)
  /\ loading' = TRUE
  /\ UNCHANGED <<grid, store, storeCols, nextId, leads, fields, searchQuery, prefs,
                 undoStack, redoStack, tasks, obs>>

Notified == NotifiedWithin(MaxReloads)

\* another editor updates one cell of table leads
RemoteWrite(id, k, v) ==
  /\ obs.remote < MaxRemote
  /\ id \in DOMAIN store
  /\ UpdateAccepted(storeCols, (k :> v))
  /\ store' = StoreUpdate(store, id, (k :> v))
  /\ notif' = Notify(notif, TRUE)
  /\ obs' = [Off(obs) EXCEPT !.remote = @ + 1]
  /\ UNCHANGED <<grid, storeCols, nextId, leads, fields, loading, searchQuery, prefs,
                 undoStack, redoStack, tasks, reloads>>

-----------------------------------------------------------------------------
(* Toolbar *)

SetSearchQuery(q) ==
  /\ UserReady
  /\ searchQuery # q
  /\ searchQuery' = q
  /\ UNCHANGED <<grid, store, storeCols, nextId, notif, leads, fields, loading, prefs,
                 undoStack, redoStack, tasks, reloads, obs>>

\* the check box of a field in the column menu
toggleFieldVisibility(fieldKey) ==
  LET Other(k) == k # fieldKey
  IN /\ UserReady
     /\ prefs' = [prefs EXCEPT !.hidden = IF fieldKey \in Range(@)
                                          THEN SeqFilter(@, Other)
                                          ELSE Append(@, fieldKey)]
     /\ obs' = [obs EXCEPT !.moved = InitObs.moved]
     /\ UNCHANGED <<grid, store, storeCols, nextId, notif, leads, fields, loading,
                    searchQuery, undoStack, redoStack, tasks, reloads>>

\* next = [...arr]; [item] = next.splice(from, 1); next.splice(to, 0, item)
moveInArray(arr, from, to) ==
  IF from = to \/ from < 0 \/ to < 0 \/ from >= Len(arr) \/ to >= Len(arr) THEN arr
  ELSE LET item == arr[from + 1]
           rest == SubSeq(arr, 1, from) \o SubSeq(arr, from + 2, Len(arr))
       IN SubSeq(rest, 1, to) \o <<item>> \o SubSeq(rest, to + 1, Len(rest))

\* the keys of the columns the grid shows, left to right
columnKeys(flds, p) ==
  LET of == orderedFields(flds, p)
  IN [i \in 1..Len(of) |-> of[i].field_key]

\* a column header is dragged from startIndex and dropped on endIndex;
\* obs.moved keeps the gesture and the columns shown before it
handleColumnMoved(startIndex, endIndex) ==
  /\ UserReady
  /\ startIndex # endIndex
  /\ prefs' = [prefs EXCEPT !.order =
                 moveInArray(IF Len(prefs.order) > 0 THEN prefs.order
                             ELSE columnKeys(fields, prefs),
                             startIndex, endIndex)]
  /\ obs' = [obs EXCEPT !.moved = [from |-> startIndex, to |-> endIndex,
                                   before |-> columnKeys(fields, prefs)]]
  /\ UNCHANGED <<grid, store, storeCols, nextId, notif, leads, fields, loading,
                 searchQuery, undoStack, redoStack, tasks, reloads>>

SetAutoAddRows(b) ==
  /\ UserReady
  /\ prefs.autoAddRows # b
  /\ prefs' = [prefs EXCEPT !.autoAddRows = b]
  /\ UNCHANGED <<grid, store, storeCols, nextId, notif, leads, fields, loading, searchQuery,
                 undoStack, redoStack, tasks, reloads, obs>>

SetPasteHeaderMap(b) ==
  /\ UserReady
  /\ prefs.pasteHeaderMap # b
  /\ prefs' = [prefs EXCEPT !.pasteHeaderMap = b]
  /\ UNCHANGED <<grid, store, storeCols, nextId, notif, leads, fields, loading, searchQuery,
                 undoStack, redoStack, tasks, reloads, obs>>

-----------------------------------------------------------------------------
(* applyMatrix *)

NewTask(kind, pc, call, changes, inserts, delIds, ensure, pending) ==
  [kind |-> kind, pc |-> pc, call |-> call, changes |-> changes, inserts |-> inserts,
   delIds |-> delIds, ensure |-> ensure, pending |-> pending, ok |-> TRUE]

\* the task of one applyMatrix call and its record in obs; origin.text is
\* the text a cut has written to the clipboard before it called onDelete,
\* origin.source the source range of a fill of the Glide grid
ApplyStart(origin, startRow, startCol, matrix, of, fl, plan, ens) ==
  LET call == [via |-> origin.via, row |-> startRow, col |-> origin.col,
               matrix |-> origin.matrix, headerMap |-> origin.headerMap,
               startCol |-> startCol, data |-> matrix,
               autoAdd |-> prefs.autoAddRows,
               cols |-> [i \in DOMAIN of |-> of[i].field_key],
               ids |-> [i \in DOMAIN fl |-> fl[i].id],
               updates |-> plan.updates]
      first == IF ens = <<>> THEN "updates" ELSE "ensure"
  IN /\ nextId + Len(plan.inserts) <= MaxId + 1
     /\ tasks' = Append(tasks, NewTask("apply", first, call, plan.changes, plan.inserts,
                                       {}, ens, plan.updates))
     /\ obs' = [obs EXCEPT
                  !.ops = @ + 1,
                  !.track = IF tasks = <<>> THEN "applying" ELSE "off",
                  !.pre = IF tasks = <<>> THEN store ELSE <<>>,
                  !.post = <<>>,
                  !.unensured = @ \/ (ens = <<>> /\
                                      Unensured(PayloadsOf(plan.updates), obs.ensured)),
                  !.text = IF "text" \in DOMAIN origin THEN origin.text ELSE @,
                  !.source = IF "source" \in DOMAIN origin THEN origin.source ELSE @]

\* the synchronous head of applyMatrix: it reads orderedFields, filteredLeads
\* and prefs of the render it was created in and keeps them over its awaits
applyMatrix(origin, startRow, startCol, matrix, of, fl) ==
  /\ Len(matrix) > 0
  /\ \E plan \in {applyMatrixPlan(fl, of, prefs.autoAddRows, startRow, startCol, matrix)} :
       ApplyStart(origin, startRow, startCol, matrix, of, fl,
                  [plan EXCEPT !.updates = Range(@)], EnsureList(of))
  /\ UNCHANGED <<store, storeCols, nextId, notif, leads, fields, loading,
                 searchQuery, prefs, undoStack, redoStack, reloads>>

\* paste on the grid at cell (col, row)
handlePaste(col, row, matrix) ==
  /\ UserReady
  /\ Len(matrix) > 0
  /\ \E of \in {orderedFields(fields, prefs)} :
       \E hm \in {IF prefs.pasteHeaderMap
                  THEN applyMatrixWithHeaderMap(of, matrix)
                  ELSE [startCol |-> col, matrix |-> matrix]} :
         applyMatrix([via |-> "paste", col |-> col, matrix |-> matrix,
                      headerMap |-> prefs.pasteHeaderMap],
                     row, hm.startCol, hm.matrix, of, filteredLeads(leads, searchQuery))
  /\ UNCHANGED grid

\* Delete or Backspace on the current range of the grid selection
handleDelete(x, y, width, height) ==
  /\ UserReady
  /\ \E matrix \in {[r \in 1..height |-> [c \in 1..width |-> <<>>]]} :
       applyMatrix([via |-> "delete", col |-> x, matrix |-> matrix, headerMap |-> FALSE],
                   y, x, matrix,
                   orderedFields(fields, prefs), filteredLeads(leads, searchQuery))
  /\ UNCHANGED grid

\* one add_lead_column call of an applyMatrix returns; after the last one the
\* updates are issued
TaskEnsure(i) ==
  LET t == tasks[i]
      rest == Tail(t.ensure)
      ensured == obs.ensured \cup {Head(t.ensure)}
  IN /\ i \in 1..Len(tasks)
     /\ t.pc = "ensure"
     /\ storeCols' = storeCols \cup {Head(t.ensure)}
     /\ tasks' = [tasks EXCEPT ![i].ensure = rest,
                               ![i].pc = IF rest = <<>> THEN "updates" ELSE "ensure"]
     /\ obs' = [obs EXCEPT !.ensured = ensured,
                           !.unensured = @ \/ (rest = <<>> /\
                                               Unensured(PayloadsOf(t.pending), ensured))]
     /\ UNCHANGED <<grid, store, nextId, notif, leads, fields, loading, searchQuery, prefs,
                    undoStack, redoStack, reloads>>

\* the store executes one of the updates a handler awaits with Promise.all
TaskUpdate(i, u) ==
  LET t == tasks[i]
      accepted == UpdateAccepted(storeCols, u.payload)
  IN /\ i \in 1..Len(tasks)
     /\ t.pc = "updates"
     /\ u \in t.pending
     /\ store' = IF accepted THEN StoreUpdate(store, u.id, u.payload) ELSE store
     /\ notif' = Notify(notif, accepted /\ u.id \in DOMAIN store)
     /\ tasks' = [tasks EXCEPT ![i].pending = @ \ {u}, ![i].ok = @ /\ accepted]
     /\ UNCHANGED <<grid, storeCols, nextId, leads, fields, loading, searchQuery, prefs,
                    undoStack, redoStack, reloads, obs>>

\* whether applyMatrix pushes a change-set: with inserts only when the store
\* returned the inserted rows, without inserts when a field change was recorded
ApplyPushes(hasInserts, data, changes) ==
  IF hasInserts THEN data # <<>> ELSE changes # <<>>

\* the updates of an applyMatrix are done: the batch insert, the push of the
\* change-set and the call of loadData
ApplyFinish(i) ==
  LET t == tasks[i]
      hasInserts == t.inserts # <<>>
      accepted == InsertAccepted(store, storeCols, t.inserts)
      data == IF hasInserts /\ accepted THEN InsertedRows(t.inserts, nextId) ELSE <<>>
      pushed == ApplyPushes(hasInserts, data, t.changes)
      success == t.ok /\ pushed
  IN /\ i \in 1..Len(tasks)
     /\ t.kind = "apply" /\ t.pc = "updates" /\ t.pending = {}
     /\ ReloadRoom
     /\ store' = IF data # <<>> THEN StoreInsert(store, t.inserts, nextId) ELSE store
     /\ nextId' = IF data # <<>> THEN nextId + FreshCount(t.inserts) ELSE nextId
     /\ notif' = Notify(notif, data # <<>>)
     /\ undoStack' = IF pushed
                     THEN Append(undoStack, [changes |-> t.changes, insertedRows |-> data])
                     ELSE undoStack
     /\ redoStack' = IF pushed THEN <<>> ELSE redoStack
     /\ reloads' = Append(reloads, SentReload)
     /\ loading' = TRUE
     /\ tasks' = RemoveAt(tasks, i)
     /\ obs' = [obs EXCEPT
                  !.track = IF obs.track = "applying" /\ success THEN "applied" ELSE "off",
                  !.pre = IF obs.track = "applying" /\ success THEN @ ELSE <<>>,
                  !.post = IF obs.track = "applying" /\ success THEN store' ELSE <<>>,
                  !.unensured = @ \/ (hasInserts /\ Unensured(RowVals(t.inserts), obs.ensured))]
     /\ grid' = IF t.call.via = "fill" THEN dragEnded(grid) ELSE grid
     /\ UNCHANGED <<storeCols, leads, fields, searchQuery, prefs>>

-----------------------------------------------------------------------------
(* Direct cell edits *)

\* onCellsEdited of the grid; the updates are issued at once
handleCellsEdited(edits) ==
  LET of == orderedFields(fields, prefs)
      fl == filteredLeads(leads, searchQuery)
      plan == cellsEditedPlan(fl, of, edits)
      t == NewTask("edit", "updates", NoCall, plan.changes, <<>>, {}, <<>>, plan.updates)
  IN /\ UserReady
     /\ Len(edits) > 0
     /\ plan.updates # {}
     /\ tasks' = Append(tasks, t)
     /\ obs' = [Off(obs) EXCEPT
                  !.ops = @ + 1,
                  !.unensured = @ \/ Unensured(PayloadsOf(plan.updates), obs.ensured)]
     /\ UNCHANGED <<grid, store, storeCols, nextId, notif, leads, fields, loading,
                    searchQuery, prefs, undoStack, redoStack, reloads>>

\* the updates of a cell edit are done: the push is unconditional
EditFinish(i) ==
  LET t == tasks[i]
  IN /\ i \in 1..Len(tasks)
     /\ t.kind = "edit" /\ t.pc = "updates" /\ t.pending = {}
     /\ ReloadRoom
     /\ undoStack' = Append(undoStack, [changes |-> t.changes, insertedRows |-> <<>>])
     /\ redoStack' = <<>>
     /\ reloads' = Append(reloads, SentReload)
     /\ loading' = TRUE
     /\ tasks' = RemoveAt(tasks, i)
     /\ UNCHANGED <<grid, store, storeCols, nextId, notif, leads, fields, searchQuery,
                    prefs, obs>>

-----------------------------------------------------------------------------
(* Undo and redo *)

\* handleUndo / handleRedo up to the first await of applyUndoAction
UndoRedoStart(useNext, action) ==
  LET rows == IF useNext THEN RedoRows(action) ELSE <<>>
      ids == IF useNext THEN {} ELSE UndoIds(action)
      ups == undoPayloads(action, useNext)
      first == IF action.insertedRows # <<>> THEN "rows" ELSE "updates"
      t == NewTask(IF useNext THEN "redo" ELSE "undo", first, NoCall,
                   action.changes, rows, ids, <<>>, ups)
      from == IF useNext THEN "undone" ELSE "applied"
      to == IF useNext THEN "redoing" ELSE "undoing"
      follows == obs.track = from /\ tasks = <<>>
  IN /\ tasks' = Append(tasks, t)
     /\ obs' = [obs EXCEPT
                  !.ops = @ + 1,
                  !.track = IF follows THEN to ELSE "off",
                  !.pre = IF follows THEN @ ELSE <<>>,
                  !.post = IF follows THEN @ ELSE <<>>,
                  !.unensured = @ \/ Unensured(
                       IF first = "rows" THEN RowVals(rows) ELSE PayloadsOf(ups),
                       obs.ensured)]

handleUndo ==
  /\ UserReady
  /\ undoStack # <<>>
  /\ undoStack' = Front(undoStack)
  /\ redoStack' = Append(redoStack, Last(undoStack))
  /\ UndoRedoStart(FALSE, Last(undoStack))
  /\ UNCHANGED <<grid, store, storeCols, nextId, notif, leads, fields, loading,
                 searchQuery, prefs, reloads>>

handleRedo ==
  /\ UserReady
  /\ redoStack # <<>>
  /\ redoStack' = Front(redoStack)
  /\ undoStack' = Append(undoStack, Last(redoStack))
  /\ UndoRedoStart(TRUE, Last(redoStack))
  /\ UNCHANGED <<grid, store, storeCols, nextId, notif, leads, fields, loading,
                 searchQuery, prefs, reloads>>

\* handleUndo / handleRedo on an empty stack: if (!last) return
UndoRedoNoop(which) ==
  /\ UserReady
  /\ IF which = "undo" THEN undoStack = <<>> ELSE redoStack = <<>>
  /\ obs.noop # which
  /\ obs' = [obs EXCEPT !.noop = which]
  /\ UNCHANGED <<grid, store, storeCols, nextId, notif, leads, fields, loading, searchQuery,
                 prefs, undoStack, redoStack, tasks, reloads>>

\* applyUndoAction: the delete (undo) or insert (redo) of the inserted rows
TaskRows(i) ==
  LET t == tasks[i]
      accepted == t.kind = "undo" \/ InsertAccepted(store, storeCols, t.inserts)
      changed == IF t.kind = "undo" THEN t.delIds \cap DOMAIN store # {} ELSE accepted
  IN /\ i \in 1..Len(tasks)
     /\ t.pc = "rows"
     /\ store' = IF t.kind = "undo" THEN StoreDelete(store, t.delIds)
                 ELSE IF accepted THEN StoreInsert(store, t.inserts, nextId)
                 ELSE store
     /\ notif' = Notify(notif, changed)
     /\ tasks' = [tasks EXCEPT ![i].pc = "updates", ![i].ok = @ /\ accepted]
     /\ obs' = [obs EXCEPT
                  !.unensured = @ \/ Unensured(PayloadsOf(t.pending), obs.ensured)]
     /\ UNCHANGED <<grid, storeCols, nextId, leads, fields, loading, searchQuery, prefs,
                    undoStack, redoStack, reloads>>

\* applyUndoAction: the updates are done, loadData()
UndoRedoFinish(i) ==
  LET t == tasks[i]
      done == IF t.kind = "undo" THEN "undone" ELSE "redone"
      from == IF t.kind = "undo" THEN "undoing" ELSE "redoing"
      good == obs.track = from /\ t.ok
  IN /\ i \in 1..Len(tasks)
     /\ t.kind \in {"undo", "redo"} /\ t.pc = "updates" /\ t.pending = {}
     /\ ReloadRoom
     /\ reloads' = Append(reloads, SentReload)
     /\ loading' = TRUE
     /\ tasks' = RemoveAt(tasks, i)
     /\ obs' = [obs EXCEPT !.track = IF good THEN done ELSE "off",
                           !.pre = IF good THEN @ ELSE <<>>,
                           !.post = IF good THEN @ ELSE <<>>]
     /\ UNCHANGED <<grid, store, storeCols, nextId, notif, leads, fields, searchQuery,
                    prefs, undoStack, redoStack>>

-----------------------------------------------------------------------------
(* The stacks kept over a reload of the page (temp view) *)

\* the number of change-sets of a stack that are written to localStorage
StackCap == 50

\* variant: the whole stack is kept
sliceLast_all(s, n) == s

\* s.slice(-n)
sliceLast(s, n) ==
  IF Len(s) <= n THEN s ELSE SubSeq(s, Len(s) - n + 1, Len(s))

\* localStorage undo:temp and redo:temp; the effects that write them run
\* after every render that changed the stack, so between two handlers they
\* hold the slice of the current stack (JSON keeps strings, null and the
\* order of an array)
storedUndo == sliceLast(undoStack, StackCap)
storedRedo == sliceLast(redoStack, StackCap)

\* the page is loaded again while nothing is in flight: the component starts
\* from its initial state and takes the stacks from localStorage
Remount ==
  /\ tasks = <<>> /\ reloads = <<>>
  /\ undoStack' = storedUndo
  /\ redoStack' = storedRedo
  /\ leads' = <<>>
  /\ fields' = <<>>
  /\ loading' = TRUE
  /\ searchQuery' = <<>>
  /\ notif' = 0
  /\ reloads' = <<SentReload>>
  /\ obs' = Off(obs)
  /\ grid' = InitGrid
  /\ UNCHANGED <<store, storeCols, nextId, prefs, tasks>>

-----------------------------------------------------------------------------
(* Range selection of the table grid: the table renders one row for each of *)
(* filteredLeads and one column for each of orderedFields.                  *)

MaxRanges == 2      \* ranges of the selection that are held at the same time
MaxEvents == 4      \* mouse-down, mouse-enter and key events of the user on the table grid
MaxGridOps == 2     \* applyMatrix calls of the table grid (SpecGrid)
MaxOverlap == 2     \* loadData calls in flight at the same time (SpecReload)

Max(a, b) == IF a > b THEN a ELSE b

Cell(r, c) == [row |-> r, col |-> c]

normalizeRange(start, end) ==
  [top |-> Min(start.row, end.row), bottom |-> Max(start.row, end.row),
   left |-> Min(start.col, end.col), right |-> Max(start.col, end.col)]

isCellInRange(rowIndex, colIndex, range) ==
  LET normalized == normalizeRange(range.start, range.end)
  IN /\ rowIndex >= normalized.top
     /\ rowIndex <= normalized.bottom
     /\ colIndex >= normalized.left
     /\ colIndex <= normalized.right

\* getRangeForRow and getRangeForColumn
getRangeFor(mode, index, nrows, ncols) ==
  IF mode = "row"
  THEN [start |-> Cell(index, 0), end |-> Cell(index, Max(ncols - 1, 0))]
  ELSE [start |-> Cell(0, index), end |-> Cell(Max(nrows - 1, 0), index)]

\* prev.findIndex(...) + 1: the first range that holds the cell, 0 when none does
hitIndex(rs, rowIndex, colIndex) ==
  LET hits == {i \in 1..Len(rs) : isCellInRange(rowIndex, colIndex, rs[i])}
  IN IF hits = {} THEN 0 ELSE CHOOSE i \in hits : \A j \in hits : i <= j

\* prev.length > 0 ? [...prev.slice(0, -1), nextRange] : [nextRange]
replaceLast(rs, nextRange) ==
  IF Len(rs) > 0 THEN Append(Front(rs), nextRange) ELSE <<nextRange>>

\* the grid is rendered and the bounds leave room for one more event
GridReady == UserReady /\ grid.events < MaxEvents

\* the state updates the mouse-down handlers end with; the button is pressed
\* while it is up and released over the grid
MouseDown(sel, rs, mode, cell) ==
  /\ GridReady
  /\ grid.pointer = "up"
  /\ Len(rs) <= MaxRanges
  /\ grid' = [grid EXCEPT !.selection = sel, !.ranges = rs, !.selectionMode = mode,
                          !.isSelecting = TRUE, !.selectedCell = cell,
                          !.pointer = IF mode = "cell" THEN "cell" ELSE "header",
                          !.events = @ + 1]
  /\ UNCHANGED <<store, storeCols, nextId, notif, leads, fields, loading, searchQuery,
                 prefs, undoStack, redoStack, tasks, reloads, obs>>

\* mouse-down on the rendered cell (rowIndex, colIndex); mod is the modifier key
handleCellMouseDown(mod, rowIndex, colIndex) ==
  \E fl \in {filteredLeads(leads, searchQuery)} : \E of \in {orderedFields(fields, prefs)} :
    LET baseRange == [start |-> Cell(rowIndex, colIndex), end |-> Cell(rowIndex, colIndex)]
        nextRange == [start |-> grid.selection.start, end |-> Cell(rowIndex, colIndex)]
        hit == hitIndex(grid.ranges, rowIndex, colIndex)
        cell == [leadId |-> fl[rowIndex + 1].id, fieldKey |-> of[colIndex + 1].field_key]
    IN /\ rowIndex < Len(fl) /\ colIndex < Len(of)
       /\ IF mod = "shift" /\ grid.selection # NoRange
          THEN MouseDown(nextRange, replaceLast(grid.ranges, nextRange), "cell", cell)
          ELSE IF mod = "ctrl"
          THEN MouseDown(baseRange,
                         IF hit > 0 THEN RemoveAt(grid.ranges, hit)
                         ELSE Append(grid.ranges, baseRange),
                         "cell", cell)
          ELSE MouseDown(baseRange, <<baseRange>>, "cell", cell)

\* the pointer enters the rendered cell (rowIndex, colIndex) during a drag
handleCellMouseEnter(rowIndex, colIndex) ==
  LET rs == grid.ranges
      end == Cell(rowIndex, colIndex)
  IN /\ GridReady
     /\ rowIndex < Len(filteredLeads(leads, searchQuery))
     /\ colIndex < Len(orderedFields(fields, prefs))
     /\ grid.isSelecting \/ grid.isFilling
     /\ grid' = [grid EXCEPT
                   !.selection = IF @ # NoRange THEN [start |-> @.start, end |-> end] ELSE @,
                   !.ranges = IF rs = <<>> THEN rs
                              ELSE [rs EXCEPT ![Len(rs)] = [start |-> @.start, end |-> end]],
                   !.events = @ + 1]
     /\ UNCHANGED <<store, storeCols, nextId, notif, leads, fields, loading, searchQuery,
                    prefs, undoStack, redoStack, tasks, reloads, obs>>

\* handleRowHeaderMouseDown (mode "row") and handleColumnHeaderMouseDown (mode
\* "col") on the rendered header index
handleHeaderMouseDown(mode, mod, index) ==
  \E nrows \in {Len(filteredLeads(leads, searchQuery))} :
    \E ncols \in {Len(orderedFields(fields, prefs))} :
      LET range == getRangeFor(mode, index, nrows, ncols)
          nextRange == [start |-> grid.selection.start, end |-> range.end]
      IN /\ index < (IF mode = "row" THEN nrows ELSE ncols)
         /\ IF mod = "shift" /\ grid.selection # NoRange
            THEN MouseDown(nextRange, replaceLast(grid.ranges, nextRange), mode,
                           grid.selectedCell)
            ELSE IF mod = "ctrl"
            THEN MouseDown(range, Append(grid.ranges, range), mode, grid.selectedCell)
            ELSE MouseDown(range, <<range>>, mode, grid.selectedCell)

\* the pointer enters a row header (mode "row") or a column header (mode "col")
handleHeaderMouseEnter(mode, index) ==
  LET sel == grid.selection
      rs == grid.ranges
      nextRange == IF mode = "row"
                   THEN [start |-> sel.start, end |-> Cell(index, sel.end.col)]
                   ELSE [start |-> sel.start, end |-> Cell(sel.end.row, index)]
  IN /\ GridReady
     /\ index < (IF mode = "row" THEN Len(filteredLeads(leads, searchQuery))
                 ELSE Len(orderedFields(fields, prefs)))
     /\ grid.isSelecting /\ grid.selectionMode = mode /\ sel # NoRange
     /\ grid' = [grid EXCEPT
                   !.selection = nextRange,
                   !.ranges = IF rs = <<>> THEN rs ELSE [rs EXCEPT ![Len(rs)] = nextRange],
                   !.events = @ + 1]
     /\ UNCHANGED <<store, storeCols, nextId, notif, leads, fields, loading, searchQuery,
                    prefs, undoStack, redoStack, tasks, reloads, obs>>

\* value || '' of the cell the view shows at (rowIndex, colIndex)
getCellValue(fl, of, rowIndex, colIndex) ==
  IF rowIndex < 0 \/ rowIndex >= Len(fl) \/ colIndex < 0 \/ colIndex >= Len(of) THEN <<>>
  ELSE LET value == fl[rowIndex + 1].vals[of[colIndex + 1].field_key]
       IN IF Truthy(value) THEN value ELSE <<>>

\* mouse-down on the fill handle, which is rendered in the bottom right cell
\* of the selection; obs.source keeps the selection the drag starts from
FillHandleMouseDown ==
  \E fl \in {filteredLeads(leads, searchQuery)} : \E of \in {orderedFields(fields, prefs)} :
    LET range == normalizeRange(grid.selection.start, grid.selection.end)
    IN /\ GridReady
       /\ grid.pointer = "up"
       /\ grid.selection # NoRange
       /\ range.bottom < Len(fl) /\ range.right < Len(of)
       /\ grid' = [grid EXCEPT !.fillValue = getCellValue(fl, of, range.top, range.left),
                               !.isFilling = TRUE, !.pointer = "handle",
                               !.events = @ + 1]
       /\ obs' = [obs EXCEPT !.source = [x |-> range.left, y |-> range.top,
                                         width |-> range.right - range.left + 1,
                                         height |-> range.bottom - range.top + 1]]
       /\ UNCHANGED <<store, storeCols, nextId, notif, leads, fields, loading, searchQuery,
                      prefs, undoStack, redoStack, tasks, reloads>>

Digits == <<"0", "1", "2", "3", "4", "5", "6", "7", "8", "9">>

\* the value of a run of decimal digits
RECURSIVE DecValue(_)
DecValue(d) ==
  IF d = <<>> THEN 0
  ELSE 10 * DecValue(Front(d)) + ((CHOOSE i \in 1..10 : Digits[i] = Last(d)) - 1)

\* Number(s) for the values of the model: blank text is 0, a run of digits,
\* with a minus sign before it or not and blanks around it or not, is its
\* value, and the other values (x, b, 1a, INV-001, Jan 1 2024, 2024-01-01)
\* are no numeric literal and give NaN; no value of the model has a plus
\* sign, a point, an exponent or a 0x prefix
Number(s) ==
  LET t == trim(s)
      AllDigits(d) == \A i \in 1..Len(d) : d[i] \in Range(Digits)
  IN IF AllDigits(t) THEN [nan |-> FALSE, n |-> DecValue(t)]
     ELSE IF Head(t) = "-" /\ Len(t) > 1 /\ AllDigits(Tail(t))
          THEN [nan |-> FALSE, n |-> 0 - DecValue(Tail(t))]
          ELSE [nan |-> TRUE, n |-> 0]

\* String(n) of an integer
String(n) ==
  LET RECURSIVE DecString(_)
      DecString(m) ==
        IF m < 10 THEN <<Digits[m + 1]>>
        ELSE DecString(m \div 10) \o <<Digits[(m % 10) + 1]>>
  IN IF n < 0 THEN <<"-">> \o DecString(0 - n) ELSE DecString(n)

\* the months the dates of the model lie in, with their lengths; day 0 is
\* 2023-12-01
Months ==
  << [y |-> 2023, m |-> 12, len |-> 31], [y |-> 2024, m |-> 1, len |-> 31],
     [y |-> 2024, m |-> 2, len |-> 29], [y |-> 2024, m |-> 3, len |-> 31] >>

RECURSIVE monthStart(_)
monthStart(i) == IF i = 1 THEN 0 ELSE monthStart(i - 1) + Months[i - 1].len

\* the day of a calendar date, NaN when the date does not exist
dayOf(y, m, d) ==
  IF \E i \in DOMAIN Months : Months[i].y = y /\ Months[i].m = m /\ d >= 1 /\ d <= Months[i].len
  THEN [nan |-> FALSE,
        day |-> monthStart(CHOOSE i \in DOMAIN Months : Months[i].y = y /\ Months[i].m = m)
                + d - 1]
  ELSE [nan |-> TRUE, day |-> 0]

\* new Date(s) for the values of the model, as the day of its midnight: the
\* date YYYY-MM-DD and the date-time YYYY-MM-DDT00:00Z are read as UTC, the
\* form "Jan D YYYY" as local time, and the browser's time zone is UTC; the
\* other values are no date. An engine that reads more (V8 takes "1" for a
\* date) decides nothing here: where the two dates of a source are looked at,
\* one of the two values is blank or without a digit
Date(s) ==
  LET IsDigits(t) == t # <<>> /\ \A i \in 1..Len(t) : t[i] \in Range(Digits)
      iso == /\ Len(s) \in {10, 17}
             /\ IsDigits(SubSeq(s, 1, 4)) /\ s[5] = "-" /\ IsDigits(SubSeq(s, 6, 7))
             /\ s[8] = "-" /\ IsDigits(SubSeq(s, 9, 10))
             /\ Len(s) = 17 => SubSeq(s, 11, 17) = <<"T", "0", "0", ":", "0", "0", "Z">>
      jan == /\ Len(s) \in {10, 11}
             /\ SubSeq(s, 1, 4) = <<"J", "a", "n", " ">>
             /\ IsDigits(SubSeq(s, 5, Len(s) - 5))
             /\ s[Len(s) - 4] = " " /\ IsDigits(SubSeq(s, Len(s) - 3, Len(s)))
  IN IF iso THEN dayOf(DecValue(SubSeq(s, 1, 4)), DecValue(SubSeq(s, 6, 7)),
                       DecValue(SubSeq(s, 9, 10)))
     ELSE IF jan THEN dayOf(DecValue(SubSeq(s, Len(s) - 3, Len(s))), 1,
                            DecValue(SubSeq(s, 5, Len(s) - 5)))
     ELSE [nan |-> TRUE, day |-> 0]

\* s.padStart(width, '0')
RECURSIVE padStart(_, _)
padStart(s, width) == IF Len(s) >= width THEN s ELSE padStart(<<"0">> \o s, width)

\* toISOString().slice(0, 10) of midnight UTC of a day
toISODate(day) ==
  LET i == CHOOSE j \in DOMAIN Months : monthStart(j) <= day /\ day < monthStart(j) + Months[j].len
  IN String(Months[i].y) \o <<"-">> \o padStart(String(Months[i].m), 2) \o <<"-">>
       \o padStart(String(day - monthStart(i) + 1), 2)

\* the matrix handleGridMouseUp builds for a fill: down a single column a
\* numeric series when the first two cells are numbers (a blank cell is
\* the number 0), else a series of days when both are dates; the fill value
\* otherwise. The day steps of the model are whole, which Math.round leaves
\* as they are
fillMatrix(range, value, fl, of) ==
  LET base == getCellValue(fl, of, range.top, range.left)
      second == getCellValue(fl, of, range.top + 1, range.left)
      baseNum == Number(base)
      secondNum == Number(second)
      baseDate == Date(base)
      secondDate == Date(second)
      column == range.right = range.left /\ range.bottom > range.top
  IN [r \in 1..(range.bottom - range.top + 1) |->
        [c \in 1..(range.right - range.left + 1) |->
           IF column /\ ~baseNum.nan /\ ~secondNum.nan
           THEN String(baseNum.n + (secondNum.n - baseNum.n) * (r - 1))
           ELSE IF column /\ ~baseDate.nan /\ ~secondDate.nan
                THEN toISODate(baseDate.day + (secondDate.day - baseDate.day) * (r - 1))
                ELSE value]]

\* mouse-up on the grid, up to the first await: a fill applies its matrix and
\* the drag flags are reset when applyMatrix has returned
handleGridMouseUp ==
  /\ UserReady
  /\ grid.pointer # "up"
  /\ IF grid.isFilling /\ grid.selection # NoRange
     THEN \E range \in {normalizeRange(grid.selection.start, grid.selection.end)} :
          \E fl \in {filteredLeads(leads, searchQuery)} :
          \E of \in {orderedFields(fields, prefs)} :
          \E matrix \in {fillMatrix(range, IF grid.fillValue = NULL THEN <<>>
                                           ELSE grid.fillValue, fl, of)} :
            /\ applyMatrix([via |-> "fill", col |-> range.left, matrix |-> matrix,
                            headerMap |-> FALSE],
                           range.top, range.left, matrix, of, fl)
            /\ grid' = [grid EXCEPT !.pointer = "up"]
     ELSE /\ grid' = [dragEnded(grid) EXCEPT !.pointer = "up"]
          /\ UNCHANGED <<store, storeCols, nextId, notif, leads, fields, loading,
                         searchQuery, prefs, undoStack, redoStack, tasks, reloads, obs>>

\* a matrix of empty strings of the dimensions of a range
blankMatrix(range) ==
  [r \in 1..(range.bottom - range.top + 1) |->
     [c \in 1..(range.right - range.left + 1) |-> <<>>]]

DeleteRunning ==
  grid.del.rest # <<>> \/ \E i \in 1..Len(tasks) : tasks[i].call.via = "delete"

\* Delete or Backspace on the table grid, up to the first await: the ranges
\* are cleared one after the other, each applyMatrix awaited, all of them
\* reading the views of the render the key was pressed in
handleKeyDownDelete ==
  \E fl \in {filteredLeads(leads, searchQuery)} : \E of \in {orderedFields(fields, prefs)} :
    LET targetRanges == IF Len(grid.ranges) > 0 THEN grid.ranges ELSE <<grid.selection>>
        range == normalizeRange(Head(targetRanges).start, Head(targetRanges).end)
        rest == Tail(targetRanges)
    IN /\ GridReady
       /\ ~DeleteRunning
       /\ \E i \in 1..Len(fl) : fl[i].id = grid.selectedCell.leadId
       /\ \E i \in 1..Len(of) : of[i].field_key = grid.selectedCell.fieldKey
       /\ grid.selection # NoRange
       /\ applyMatrix([via |-> "delete", col |-> range.left, matrix |-> blankMatrix(range),
                       headerMap |-> FALSE],
                      range.top, range.left, blankMatrix(range), of, fl)
       /\ grid' = [grid EXCEPT !.events = @ + 1,
                               !.del = IF rest = <<>> THEN InitGrid.del
                                       ELSE [rest |-> rest, of |-> of, fl |-> fl]]

\* the applyMatrix of one range has returned: the next range is cleared
DeleteNext ==
  LET range == normalizeRange(Head(grid.del.rest).start, Head(grid.del.rest).end)
      rest == Tail(grid.del.rest)
  IN /\ grid.del.rest # <<>>
     /\ \A i \in 1..Len(tasks) : tasks[i].call.via # "delete"
     /\ applyMatrix([via |-> "delete", col |-> range.left, matrix |-> blankMatrix(range),
                     headerMap |-> FALSE],
                    range.top, range.left, blankMatrix(range), grid.del.of, grid.del.fl)
     /\ grid' = [grid EXCEPT !.del = IF rest = <<>> THEN InitGrid.del ELSE [@ EXCEPT !.rest = rest]]

-----------------------------------------------------------------------------
(* Clipboard text. A text is a sequence of characters; obs.text is the text *)
(* the system clipboard holds.                                              *)
MaxText == 3

TAB == "\t"
LF == "\n"
CR == "\r"

\* the texts another application may have left on the clipboard
Texts ==
  UNION {[1..n -> {"a", TAB, LF, CR}] : n \in 0..MaxText}

\* text.replace(/pat/g, rep)
RECURSIVE replaceAll(_, _, _)
replaceAll(text, pat, rep) ==
  IF Len(text) < Len(pat) THEN text
  ELSE IF SubSeq(text, 1, Len(pat)) = pat
       THEN rep \o replaceAll(SubSeq(text, Len(pat) + 1, Len(text)), pat, rep)
       ELSE <<Head(text)>> \o replaceAll(Tail(text), pat, rep)

\* text.split(sep) for a separator of one character
RECURSIVE split(_, _)
split(text, sep) ==
  IF \A i \in 1..Len(text) : text[i] # sep THEN <<text>>
  ELSE LET i == CHOOSE k \in 1..Len(text) :
                  text[k] = sep /\ \A j \in 1..(k - 1) : text[j] # sep
       IN <<SubSeq(text, 1, i - 1)>> \o split(SubSeq(text, i + 1, Len(text)), sep)

\* the lines of a text: CRLF and CR become LF, then split on LF
textLines(text) ==
  split(replaceAll(replaceAll(text, <<CR, LF>>, <<LF>>), <<CR>>, <<LF>>), LF)

\* parseClipboard: every empty line is dropped, wherever it stands, the
\* others are split on TAB, and a text without any line gives [[]]
parseClipboard(text) ==
  LET rows == SeqFilter(textLines(text), LAMBDA row : Len(row) > 0)
      matrix == [i \in 1..Len(rows) |-> split(rows[i], TAB)]
  IN IF Len(matrix) > 0 THEN matrix ELSE << <<>> >>

\* variant: the cells of a row are joined by a blank
buildClipboardText_blank(cells, withHeaders, startCol) ==
  LET of == orderedFields(fields, prefs)
      label(idx) == IF startCol + idx < Len(of) THEN of[startCol + idx + 1].label ELSE <<>>
      headerRow == IF withHeaders /\ Len(cells) > 0
                   THEN << join([i \in 1..Len(cells[1]) |-> label(i - 1)], <<" ">>) >>
                   ELSE <<>>
      rowsText == headerRow \o [r \in 1..Len(cells) |-> join(cells[r], <<" ">>)]
  IN join(rowsText, <<LF>>)

\* buildClipboardText of the Glide grid; every cell of the grid is a Text
\* cell and a row of cells is given by its data
buildClipboardText(cells, withHeaders, startCol) ==
  LET of == orderedFields(fields, prefs)
      label(idx) == IF startCol + idx < Len(of) THEN of[startCol + idx + 1].label ELSE <<>>
      headerRow == IF withHeaders /\ Len(cells) > 0
                   THEN << join([i \in 1..Len(cells[1]) |-> label(i - 1)], <<TAB>>) >>
                   ELSE <<>>
      rowsText == headerRow \o [r \in 1..Len(cells) |-> join(cells[r], <<TAB>>)]
  IN join(rowsText, <<LF>>)

\* getCellsForSelection: the data of the cells of a rectangle, '' outside
\* the rows and columns shown
getCellsForSelection(fl, of, x, y, width, height) ==
  [r \in 1..height |-> [c \in 1..width |-> getCellValue(fl, of, y + r - 1, x + c - 1)]]

-----------------------------------------------------------------------------
(* Fill series of the Glide grid (handleFillPattern).                       *)

\* parseTrailing: /^(.*?)(\d+)$/ splits a value that ends with a digit into
\* its last run of digits and what stands before it
parseTrailing(value) ==
  IF value = <<>> \/ value[Len(value)] \notin Range(Digits) THEN [ok |-> FALSE]
  ELSE LET start == CHOOSE i \in 1..Len(value) :
                      /\ \A j \in i..Len(value) : value[j] \in Range(Digits)
                      /\ i > 1 => value[i - 1] \notin Range(Digits)
           digits == SubSeq(value, start, Len(value))
       IN [ok |-> TRUE, prefix |-> SubSeq(value, 1, start - 1),
           num |-> DecValue(digits), width |-> Len(digits)]

\* the value handleFillPattern gives cell k along the axis of a source of
\* one column or one row: a number series, else a series of the trailing
\* digits, else a series of days, else the source values in turn. Every
\* number of the model is an integer, which Math.round leaves as it is
seriesValue(baseValues, k) ==
  LET first == IF Len(baseValues) >= 1 THEN baseValues[1] ELSE <<>>
      second == IF Len(baseValues) >= 2 THEN baseValues[2] ELSE <<>>
      n1 == Number(replaceAll(first, <<",">>, <<>>))
      n2 == Number(replaceAll(second, <<",">>, <<>>))
      d1 == Date(first)
      d2 == Date(second)
      t1 == parseTrailing(first)
      t2 == parseTrailing(second)
      step == IF ~n1.nan /\ ~n2.nan /\ first # <<>> /\ second # <<>> THEN n2.n - n1.n
              ELSE IF t1.ok /\ t2.ok THEN t2.num - t1.num
              ELSE IF ~d1.nan /\ ~d2.nan /\ first # <<>> /\ second # <<>>
                   THEN d2.day - d1.day
              ELSE 1
  IN IF ~n1.nan /\ first # <<>> THEN String(n1.n + step * k)
     ELSE IF t1.ok THEN t1.prefix \o padStart(String(t1.num + step * k), t1.width)
     ELSE IF ~d1.nan /\ first # <<>> THEN toISODate(d1.day + step * k)
     ELSE baseValues[(k % Len(baseValues)) + 1]

\* the matrix handleFillPattern builds: a series for a source of one column
\* (by row) or of one row (by column), the source block tiled otherwise
fillPatternMatrix(patternSource, fillDestination, fl, of) ==
  LET getRaw(row, col) == getCellValue(fl, of, row, col)
      colValues == [i \in 1..patternSource.height |->
                      getRaw(patternSource.y + i - 1, patternSource.x)]
      rowValues == [i \in 1..patternSource.width |->
                      getRaw(patternSource.y, patternSource.x + i - 1)]
  IN [r \in 1..fillDestination.height |->
        [c \in 1..fillDestination.width |->
           IF patternSource.width = 1 THEN seriesValue(colValues, r - 1)
           ELSE IF patternSource.height = 1 THEN seriesValue(rowValues, c - 1)
           ELSE getRaw(patternSource.y + ((r - 1) % patternSource.height),
                       patternSource.x + ((c - 1) % patternSource.width))]]

\* the fill handle of the Glide grid is released: the grid hands over the
\* source range and the destination range, applyMatrix is called and not
\* awaited
handleFillPattern(patternSource, fillDestination) ==
  \E fl \in {filteredLeads(leads, searchQuery)} : \E of \in {orderedFields(fields, prefs)} :
  \E matrix \in {fillPatternMatrix(patternSource, fillDestination, fl, of)} :
    /\ UserReady
    /\ applyMatrix([via |-> "fill", col |-> fillDestination.x, matrix |-> matrix,
                    headerMap |-> FALSE, source |-> patternSource],
                   fillDestination.y, fillDestination.x, matrix, of, fl)
    /\ UNCHANGED grid

-----------------------------------------------------------------------------
(* Clipboard keys. navigator.clipboard may refuse a call: refused tells     *)
(* whether it does. obs.clip holds how the last call ended: "written",      *)
(* "caught" for a refusal the handler caught, "unhandled" for one that      *)
(* left the handler as a rejected promise.                                  *)

\* Ctrl/Cmd-C and Ctrl/Cmd-X of the Glide grid on the range of the selection:
\* writeText sits in a try, its refusal is ignored, and a cut whose text was
\* written calls onDelete (handleDelete); the copyHeaders preference keeps its
\* default, false
gridKeyDown(isCut, refused, x, y, width, height) ==
  \E fl \in {filteredLeads(leads, searchQuery)} : \E of \in {orderedFields(fields, prefs)} :
  \E text \in {buildClipboardText(getCellsForSelection(fl, of, x, y, width, height),
                                   FALSE, x)} :
    /\ UserReady
    /\ IF isCut /\ ~refused
       THEN /\ \E matrix \in {[r \in 1..height |-> [c \in 1..width |-> <<>>]]} :
                 applyMatrix([via |-> "delete", col |-> x, matrix |-> matrix,
                              headerMap |-> FALSE, text |-> text],
                             y, x, matrix, of, fl)
            /\ UNCHANGED grid
       ELSE /\ obs' = [obs EXCEPT !.clip = IF refused THEN "caught" ELSE "written",
                                  !.text = IF refused THEN @ ELSE text]
            /\ UNCHANGED <<grid, store, storeCols, nextId, notif, leads, fields, loading,
                           searchQuery, prefs, undoStack, redoStack, tasks, reloads>>

\* handleKeyDown of the table grid passes its guard: a cell is selected and
\* shown, and there is a selection
KeyOnSelection(fl, of) ==
  /\ GridReady
  /\ \E i \in 1..Len(fl) : fl[i].id = grid.selectedCell.leadId
  /\ \E i \in 1..Len(of) : of[i].field_key = grid.selectedCell.fieldKey
  /\ grid.selection # NoRange

\* Ctrl/Cmd-C on the table grid: the cells of the selection, joined by TAB
\* and LF, then await writeText, outside any try
handleKeyDownCopy(refused) ==
  \E fl \in {filteredLeads(leads, searchQuery)} : \E of \in {orderedFields(fields, prefs)} :
  \E range \in {normalizeRange(grid.selection.start, grid.selection.end)} :
  \E rows \in {[r \in 1..(range.bottom - range.top + 1) |->
                  join([c \in 1..(range.right - range.left + 1) |->
                          getCellValue(fl, of, range.top + r - 1, range.left + c - 1)],
                       <<TAB>>)]} :
    /\ KeyOnSelection(fl, of)
    /\ obs' = [obs EXCEPT !.clip = IF refused THEN "unhandled" ELSE "written",
                          !.text = IF refused THEN @ ELSE join(rows, <<LF>>)]
    /\ grid' = [grid EXCEPT !.events = @ + 1]
    /\ UNCHANGED <<store, storeCols, nextId, notif, leads, fields, loading, searchQuery,
                   prefs, undoStack, redoStack, tasks, reloads>>

\* Ctrl/Cmd-V on the table grid: await readText, outside any try, then
\* applyMatrix at the top left of the selection with the parsed text
handleKeyDownPaste(refused) ==
  \E fl \in {filteredLeads(leads, searchQuery)} : \E of \in {orderedFields(fields, prefs)} :
  \E range \in {normalizeRange(grid.selection.start, grid.selection.end)} :
  \E matrix \in {parseClipboard(obs.text)} :
    /\ KeyOnSelection(fl, of)
    /\ grid' = [grid EXCEPT !.events = @ + 1]
    /\ IF refused
       THEN /\ obs' = [obs EXCEPT !.clip = "unhandled"]
            /\ UNCHANGED <<store, storeCols, nextId, notif, leads, fields, loading,
                           searchQuery, prefs, undoStack, redoStack, tasks, reloads>>
       ELSE applyMatrix([via |-> "paste", col |-> range.left, matrix |-> matrix,
                         headerMap |-> FALSE],
                        range.top, range.left, matrix, of, fl)

\* handlePaste of the table grid: the parsed text goes to the cell of the
\* record and the field, if the view shows both
handlePasteText(leadId, fieldKey, text) ==
  \E fl \in {filteredLeads(leads, searchQuery)} : \E of \in {orderedFields(fields, prefs)} :
  \E matrix \in {parseClipboard(text)} :
    /\ Len(matrix) > 0
    /\ \E startRowIndex \in 0..(Len(fl) - 1) : \E fieldIndex \in 0..(Len(of) - 1) :
         /\ fl[startRowIndex + 1].id = leadId
         /\ of[fieldIndex + 1].field_key = fieldKey
         /\ \E hm \in {IF prefs.pasteHeaderMap
                        THEN applyMatrixWithHeaderMap(of, matrix)
                        ELSE [startCol |-> fieldIndex, matrix |-> matrix]} :
              applyMatrix([via |-> "paste", col |-> fieldIndex, matrix |-> matrix,
                           headerMap |-> prefs.pasteHeaderMap],
                          startRowIndex, hm.startCol, hm.matrix, of, fl)

\* handleGridPaste: on a view without rows the text is applied at the top
\* left if rows are added automatically; otherwise at the selected cell, or
\* at the first field of the first record when no cell is selected
handleGridPaste(text) ==
  \E fl \in {filteredLeads(leads, searchQuery)} : \E of \in {orderedFields(fields, prefs)} :
  \E matrix \in {parseClipboard(text)} :
    /\ Len(matrix) > 0
    /\ IF Len(fl) = 0 /\ Len(of) > 0
       THEN /\ prefs.autoAddRows
            /\ \E hm \in {IF prefs.pasteHeaderMap
                           THEN applyMatrixWithHeaderMap(of, matrix)
                           ELSE [startCol |-> 0, matrix |-> matrix]} :
                 applyMatrix([via |-> "paste", col |-> 0, matrix |-> matrix,
                              headerMap |-> prefs.pasteHeaderMap],
                             0, hm.startCol, hm.matrix, of, fl)
       ELSE IF grid.selectedCell # InitGrid.selectedCell
            THEN handlePasteText(grid.selectedCell.leadId, grid.selectedCell.fieldKey, text)
            ELSE /\ leads # <<>> /\ fields # <<>>
                 /\ handlePasteText(leads[1].id, fields[1].field_key, text)

\* the paste event of the table grid: a text with a TAB or a line feed is
\* taken from the event and handed to handleGridPaste
onPaste ==
  /\ UserReady
  /\ includes(obs.text, <<TAB>>) \/ includes(obs.text, <<LF>>)
  /\ handleGridPaste(obs.text)
  /\ UNCHANGED grid

-----------------------------------------------------------------------------
(* The cell editor of the table grid. grid.editingCell is the cell in edit  *)
(* mode (leadId 0: null), grid.editValue the edit buffer, grid.edited the   *)
(* outcome of the last handleCellUpdate that returned and the length of the *)
(* redo stack it left.                                                      *)

\* a click on the cell of a record: the cell enters edit mode with the value
\* the view shows
handleCellClick(rowIndex, colIndex) ==
  \E fl \in {filteredLeads(leads, searchQuery)} : \E of \in {orderedFields(fields, prefs)} :
    LET lead == fl[rowIndex + 1]
        fieldKey == of[colIndex + 1].field_key
        cell == [leadId |-> lead.id, fieldKey |-> fieldKey]
        value == lead.vals[fieldKey]
    IN /\ UserReady
       /\ rowIndex < Len(fl) /\ colIndex < Len(of)
       /\ grid.editingCell # cell
       /\ grid' = [grid EXCEPT !.editingCell = cell, !.selectedCell = cell,
                               !.editValue = IF Truthy(value) THEN value ELSE <<>>]
       /\ UNCHANGED <<store, storeCols, nextId, notif, leads, fields, loading, searchQuery,
                      prefs, undoStack, redoStack, tasks, reloads, obs>>

\* typing in the input of the cell in edit mode
setEditValue(value) ==
  /\ UserReady
  /\ grid.editingCell # InitGrid.editingCell
  /\ grid.editValue # value
  /\ grid' = [grid EXCEPT !.editValue = value]
  /\ UNCHANGED <<store, storeCols, nextId, notif, leads, fields, loading, searchQuery,
                 prefs, undoStack, redoStack, tasks, reloads, obs>>

\* Enter or blur of the input: handleCellUpdate up to its await. The call
\* keeps the cell, the value and the records of the render it was made in
handleCellUpdate ==
  LET nextValue == grid.editValue
      call == [via |-> "cell", leadId |-> grid.editingCell.leadId,
               fieldKey |-> grid.editingCell.fieldKey,
               next |-> IF Truthy(nextValue) THEN nextValue ELSE NULL,
               leads |-> leads]
  IN /\ UserReady
     /\ grid.editingCell # InitGrid.editingCell
     /\ tasks' = Append(tasks, NewTask("cell", "updates", call, <<>>, <<>>, {}, <<>>, {}))
     /\ obs' = [Off(obs) EXCEPT !.ops = @ + 1]
     /\ UNCHANGED <<grid, store, storeCols, nextId, notif, leads, fields, loading,
                    searchQuery, prefs, undoStack, redoStack, reloads>>

\* the store answers the update of the cell: with an error when the request
\* fails or the column does not exist
CellWrite(i, fails) ==
  LET t == tasks[i]
      payload == (t.call.fieldKey :> t.call.next)
      accepted == ~fails /\ UpdateAccepted(storeCols, payload)
  IN /\ i \in 1..Len(tasks)
     /\ t.kind = "cell" /\ t.pc = "updates"
     /\ store' = IF accepted THEN StoreUpdate(store, t.call.leadId, payload) ELSE store
     /\ notif' = Notify(notif, accepted /\ t.call.leadId \in DOMAIN store)
     /\ tasks' = [tasks EXCEPT ![i].pc = "done", ![i].ok = accepted]
     /\ UNCHANGED <<grid, storeCols, nextId, leads, fields, loading, searchQuery, prefs,
                    undoStack, redoStack, reloads, obs>>

\* the stacks after handleCellUpdate: one change-set of one tuple is pushed
\* and the redo stack cleared, unless the store answered with an error
cellHistory_always(undo, redo, ok, change) ==
  [undo |-> Append(undo, [changes |-> <<change>>, insertedRows |-> <<>>]), redo |-> <<>>]

cellHistory(undo, redo, ok, change) ==
  IF ok
  THEN [undo |-> Append(undo, [changes |-> <<change>>, insertedRows |-> <<>>]), redo |-> <<>>]
  ELSE [undo |-> undo, redo |-> redo]

\* handleCellUpdate after its await: throw on error, else the push and
\* setLeads on the records of the call's render; finally edit mode is left
CellFinish(i) ==
  LET t == tasks[i]
      known == {n \in 1..Len(t.call.leads) : t.call.leads[n].id = t.call.leadId}
      prevVal == IF known = {} THEN NULL
                 ELSE t.call.leads[CHOOSE n \in known : TRUE].vals[t.call.fieldKey]
      change == [id |-> t.call.leadId, fieldKey |-> t.call.fieldKey,
                 prev |-> prevVal, next |-> t.call.next]
      history == cellHistory(undoStack, redoStack, t.ok, change)
  IN /\ i \in 1..Len(tasks)
     /\ t.kind = "cell" /\ t.pc = "done"
     /\ undoStack' = history.undo
     /\ redoStack' = history.redo
     /\ leads' = IF t.ok
                 THEN [n \in 1..Len(t.call.leads) |->
                         IF n \in known
                         THEN [t.call.leads[n] EXCEPT !.vals[t.call.fieldKey] = t.call.next]
                         ELSE t.call.leads[n]]
                 ELSE leads
     /\ grid' = [grid EXCEPT !.editingCell = InitGrid.editingCell, !.editValue = <<>>,
                             !.edited = [outcome |-> IF t.ok THEN "accepted" ELSE "rejected",
                                         redo |-> Len(history.redo)]]
     /\ tasks' = RemoveAt(tasks, i)
     /\ UNCHANGED <<store, storeCols, nextId, notif, fields, loading, searchQuery, prefs,
                    reloads, obs>>

-----------------------------------------------------------------------------
(* Bulk deletes. confirm() blocks the page until the user answers; accepted *)
(* is the answer, and obs.confirm holds the last one.                       *)

\* the identifiers of the ticked rows: the grid keeps the ticked row numbers
\* (gridSelection.rows) and reads the records at these numbers from the rows
\* it is given, every time the rows or the ticks change
selectedIds(rowNumbers, rows) ==
  {rows[rowIndex + 1].id : rowIndex \in {r \in rowNumbers : r < Len(rows)}}

\* the parent's selectedIds: the grid hands its set over in an effect
SelectedIds == selectedIds(grid.rows, filteredLeads(leads, searchQuery))

\* the user ticks or unticks row markers; grid.ticked keeps the records whose
\* markers are ticked at that moment
onGridSelectionChange(rowNumbers) ==
  /\ UserReady
  /\ rowNumbers \subseteq 0..(Len(filteredLeads(leads, searchQuery)) - 1)
  /\ rowNumbers # grid.rows
  /\ grid' = [grid EXCEPT !.rows = rowNumbers,
                          !.ticked = selectedIds(rowNumbers, filteredLeads(leads, searchQuery))]
  /\ UNCHANGED <<store, storeCols, nextId, notif, leads, fields, loading, searchQuery,
                 prefs, undoStack, redoStack, tasks, reloads, obs>>

\* if (!confirm(...)) return
confirm_skipped(accepted) == TRUE

confirm(accepted) == accepted

\* a bulk delete up to its await: the question, and on yes the delete call
BulkStart(via, accepted, ids) ==
  /\ UserReady
  /\ obs' = [obs EXCEPT !.confirm = IF accepted THEN "accepted" ELSE "declined"]
  /\ tasks' = IF confirm(accepted)
              THEN Append(tasks, NewTask("bulk", "rows", [via |-> via, confirmed |-> accepted],
                                         <<>>, <<>>, ids, <<>>, {}))
              ELSE tasks
  /\ UNCHANGED <<grid, store, storeCols, nextId, notif, leads, fields, loading, searchQuery,
                 prefs, undoStack, redoStack, reloads>>

\* Delete selected
deleteSelected(accepted) ==
  /\ SelectedIds # {}
  /\ BulkStart("deleteSelected", accepted, SelectedIds)

\* Clear all of the temp view: delete().neq('id', '')
clearTempLeads(accepted) == BulkStart("clearTempLeads", accepted, Ids)

\* the store executes the delete of a bulk delete
BulkDelete(i) ==
  LET t == tasks[i]
  IN /\ i \in 1..Len(tasks)
     /\ t.kind = "bulk" /\ t.pc = "rows" /\ t.call.via # "applyBulkMethod"
     /\ store' = StoreDelete(store, t.delIds)
     /\ notif' = Notify(notif, t.delIds \cap DOMAIN store # {})
     /\ tasks' = [tasks EXCEPT ![i].pc = "done"]
     /\ UNCHANGED <<grid, storeCols, nextId, leads, fields, loading, searchQuery, prefs,
                    undoStack, redoStack, reloads, obs>>

\* the select above the grid: setBulkMethod(e.target.value)
setBulkMethod(value) ==
  /\ UserReady
  /\ value # grid.bulkMethod
  /\ grid' = [grid EXCEPT !.bulkMethod = value]
  /\ UNCHANGED <<store, storeCols, nextId, notif, leads, fields, loading, searchQuery,
                 prefs, undoStack, redoStack, tasks, reloads, obs>>

\* Apply: update({outreach_method: bulkMethod}).in('id', ids), up to its await
applyBulkMethod ==
  /\ UserReady
  /\ grid.bulkMethod # <<>> /\ SelectedIds # {}
  /\ tasks' = Append(tasks, NewTask("bulk", "rows",
                                    [via |-> "applyBulkMethod", method |-> grid.bulkMethod],
                                    <<>>, <<>>, SelectedIds, <<>>, {}))
  /\ UNCHANGED <<grid, store, storeCols, nextId, notif, leads, fields, loading, searchQuery,
                 prefs, undoStack, redoStack, reloads, obs>>

\* the store executes the update of Apply
BulkUpdate(i) ==
  LET t == tasks[i]
      payload == (K_outreach_method :> t.call.method)
  IN /\ i \in 1..Len(tasks)
     /\ t.kind = "bulk" /\ t.pc = "rows" /\ t.call.via = "applyBulkMethod"
     /\ store' = [id \in DOMAIN store |->
                    IF id \in t.delIds THEN StoreUpdate(store, id, payload)[id] ELSE store[id]]
     /\ notif' = Notify(notif, t.delIds \cap DOMAIN store # {})
     /\ tasks' = [tasks EXCEPT ![i].pc = "done"]
     /\ UNCHANGED <<grid, storeCols, nextId, leads, fields, loading, searchQuery, prefs,
                    undoStack, redoStack, reloads, obs>>

\* the request of a bulk operation fails: { error } is set
BulkReject(i) ==
  /\ i \in 1..Len(tasks)
  /\ tasks[i].kind = "bulk" /\ tasks[i].pc = "rows"
  /\ tasks' = [tasks EXCEPT ![i].pc = "done", ![i].ok = FALSE]
  /\ UNCHANGED <<grid, store, storeCols, nextId, notif, leads, fields, loading, searchQuery,
                 prefs, undoStack, redoStack, reloads, obs>>

\* what a bulk operation does to the undo and redo stacks: nothing
bulkHistory_pushed(undo, redo, ids) ==
  [undo |-> Append(undo, <<>>), redo |-> <<>>]

bulkHistory(undo, redo, ids) == [undo |-> undo, redo |-> redo]

\* the answer of a bulk operation arrives; if (!error): the local records are
\* filtered or mapped, setSelectedIds(new Set()), setBulkMethod(''). The
\* records have changed, so the grid hands over the records at its ticked
\* row numbers again, which leaves grid.rows as the state of the ticks
BulkFinish(i) ==
  LET t == tasks[i]
      Kept(lead) == lead.id \notin t.delIds
      Set(lead) == IF lead.id \in t.delIds
                   THEN [lead EXCEPT !.vals[K_outreach_method] = t.call.method]
                   ELSE lead
      history == bulkHistory(undoStack, redoStack, t.delIds)
  IN /\ i \in 1..Len(tasks)
     /\ t.kind = "bulk" /\ t.pc = "done"
     /\ leads' = IF ~t.ok THEN leads
                 ELSE IF t.call.via = "applyBulkMethod"
                      THEN [n \in 1..Len(leads) |-> Set(leads[n])]
                      ELSE SeqFilter(leads, Kept)
     /\ grid' = IF t.ok /\ t.call.via = "applyBulkMethod"
                THEN [grid EXCEPT !.bulkMethod = <<>>]
                ELSE grid
     /\ undoStack' = history.undo
     /\ redoStack' = history.redo
     /\ tasks' = RemoveAt(tasks, i)
     /\ UNCHANGED <<store, storeCols, nextId, notif, fields, loading, searchQuery, prefs,
                    reloads, obs>>

-----------------------------------------------------------------------------
(* The outreach view of one method: a table of the leads of that method.    *)
(* Its onUpdate callback makes the CRM mount the view again.                *)

\* the method of the view
method == outreachOptions[2].key

\* table leads when the view is opened: two leads of the method
OutreachStore ==
  (1 :> [EmptyVals EXCEPT ![K_name] = <<"a">>, ![K_outreach_method] = method]) @@
  (2 :> [EmptyVals EXCEPT ![K_name] = <<"b">>, ![K_email] = <<"b">>,
                          ![K_outreach_method] = method])

InitOutreach ==
  /\ store = OutreachStore
  /\ storeCols = {}
  /\ nextId = 3
  /\ notif = 0
  /\ leads = <<>>
  /\ fields = <<>>
  /\ loading = TRUE
  /\ searchQuery = <<>>
  /\ prefs = InitPrefs
  /\ undoStack = <<>>
  /\ redoStack = <<>>
  /\ tasks = <<>>
  /\ reloads = <<SentReload>>
  /\ grid = InitGrid
  /\ obs = InitObs

\* loadData of the view: select('*').eq('outreach_method', method), setLeads,
\* setFields, setLoading(false)
outreachLoadData ==
  LET Mine(lead) == lead.vals[K_outreach_method] = method
  IN /\ reloads # <<>>
     /\ leads' = SeqFilter(SelectLeads(store), Mine)
     /\ fields' = LeadFields
     /\ loading' = FALSE
     /\ reloads' = Tail(reloads)
     /\ UNCHANGED <<grid, store, storeCols, nextId, notif, searchQuery, prefs, undoStack,
                    redoStack, tasks, obs>>

\* handleCellClick on the rendered cell (rowIndex, colIndex): setSelectedCell
outreachCellClick(rowIndex, colIndex) ==
  \E fl \in {filteredLeads(leads, searchQuery)} : \E of \in {orderedFields(fields, prefs)} :
    /\ UserReady
    /\ rowIndex < Len(fl) /\ colIndex < Len(of)
    /\ grid' = [grid EXCEPT !.selectedCell = [leadId |-> fl[rowIndex + 1].id,
                                              fieldKey |-> of[colIndex + 1].field_key]]
    /\ UNCHANGED <<store, storeCols, nextId, notif, leads, fields, loading, searchQuery,
                   prefs, undoStack, redoStack, tasks, reloads, obs>>

\* findIndex: the 0-based position of the first element with the key, -1 when
\* there is none
findIndex(keys, key) ==
  IF \E i \in 1..Len(keys) : keys[i] = key
  THEN (CHOOSE i \in 1..Len(keys) : keys[i] = key /\ \A j \in 1..(i - 1) : keys[j] # key) - 1
  ELSE -1

\* payload.outreach_method of an appended row: the method of the view unless
\* the matrix row gave one
outreachInserts(inserts) ==
  [n \in 1..Len(inserts) |->
     [inserts[n] EXCEPT !.vals[K_outreach_method] = IF Truthy(@) THEN @ ELSE method]]

\* handleGridPaste and handlePaste of the view, up to the first await: the
\* anchor is the selected cell, or the first lead and the first field when no
\* cell is selected; rows are counted in leads, columns in orderedFields
outreachHandlePaste(matrix) ==
  \E fl \in {filteredLeads(leads, searchQuery)} : \E of \in {orderedFields(fields, prefs)} :
  \E anchor \in {IF grid.selectedCell # InitGrid.selectedCell \/ leads = <<>> \/ fields = <<>>
                 THEN grid.selectedCell
                 ELSE [leadId |-> leads[1].id, fieldKey |-> fields[1].field_key]} :
  \E startRowIndex \in {IF leads = <<>> THEN 0
                        ELSE findIndex([i \in 1..Len(leads) |-> leads[i].id], anchor.leadId)} :
  \E fieldIndex \in {IF leads = <<>> THEN 0
                     ELSE findIndex([i \in 1..Len(of) |-> of[i].field_key], anchor.fieldKey)} :
  \E plan \in {applyMatrixPlan(leads, of, prefs.autoAddRows, startRowIndex, fieldIndex, matrix)} :
    LET call == [via |-> "outreach", matrix |-> matrix, data |-> matrix, headerMap |-> FALSE,
                 row |-> findIndex([i \in 1..Len(fl) |-> fl[i].id], anchor.leadId),
                 col |-> fieldIndex, startCol |-> fieldIndex,
                 autoAdd |-> prefs.autoAddRows,
                 cols |-> [i \in 1..Len(of) |-> of[i].field_key],
                 ids |-> [i \in 1..Len(fl) |-> fl[i].id],
                 updates |-> Range(plan.updates)]
        ens == EnsureList(fields)
    IN /\ UserReady
       /\ Len(matrix) > 0
       /\ fields # <<>>
       /\ leads = <<>> => prefs.autoAddRows
       /\ startRowIndex >= 0 /\ fieldIndex >= 0
       /\ nextId + Len(plan.inserts) <= MaxId + 1
       /\ tasks' = Append(tasks, NewTask("outreach", IF ens = <<>> THEN "updates" ELSE "ensure",
                                         call, <<>>, outreachInserts(plan.inserts), {}, ens,
                                         Range(plan.updates)))
       /\ obs' = [Off(obs) EXCEPT !.ops = @ + 1]
       /\ UNCHANGED <<grid, store, storeCols, nextId, notif, leads, fields, loading,
                      searchQuery, prefs, undoStack, redoStack, reloads>>

\* the updates of a paste are done: the batch insert, and onUpdate(), on which
\* the CRM mounts the view again with its initial state
outreachPasteFinish(i) ==
  LET t == tasks[i]
      data == IF t.inserts # <<>> /\ InsertAccepted(store, storeCols, t.inserts)
              THEN InsertedRows(t.inserts, nextId) ELSE <<>>
  IN /\ i \in 1..Len(tasks)
     /\ t.kind = "outreach" /\ t.pc = "updates" /\ t.pending = {}
     /\ store' = IF data # <<>> THEN StoreInsert(store, t.inserts, nextId) ELSE store
     /\ nextId' = IF data # <<>> THEN nextId + FreshCount(t.inserts) ELSE nextId
     /\ notif' = Notify(notif, data # <<>>)
     /\ tasks' = RemoveAt(tasks, i)
     /\ leads' = <<>>
     /\ fields' = <<>>
     /\ loading' = TRUE
     /\ searchQuery' = <<>>
     /\ reloads' = <<SentReload>>
     /\ grid' = InitGrid
     /\ UNCHANGED <<storeCols, prefs, undoStack, redoStack, obs>>

-----------------------------------------------------------------------------
(* Sort and filter of the temp view *)

\* the updater handleHeaderClick hands to setSorts
nextSorts_toggle(prev, fieldKey, shiftKey) ==
  LET existingIndex == findIndex([i \in 1..Len(prev) |-> prev[i].fieldKey], fieldKey)
      current == prev[existingIndex + 1]
      nextDir(dir) == IF dir = "asc" THEN "desc" ELSE "asc"
  IN IF shiftKey
     THEN IF existingIndex = -1 THEN Append(prev, [fieldKey |-> fieldKey, dir |-> "asc"])
          ELSE [prev EXCEPT ![existingIndex + 1].dir = nextDir(current.dir)]
     ELSE IF existingIndex = -1 THEN << [fieldKey |-> fieldKey, dir |-> "asc"] >>
          ELSE << [fieldKey |-> fieldKey, dir |-> nextDir(current.dir)] >>

nextSorts(prev, fieldKey, shiftKey) ==
  LET existingIndex == findIndex([i \in 1..Len(prev) |-> prev[i].fieldKey], fieldKey)
      current == prev[existingIndex + 1]
      nextDir(dir) == IF dir = "asc" THEN "desc" ELSE "asc"
  IN IF shiftKey
     THEN IF existingIndex = -1 THEN Append(prev, [fieldKey |-> fieldKey, dir |-> "asc"])
          ELSE IF current.dir = "desc" THEN RemoveAt(prev, existingIndex + 1)
          ELSE [prev EXCEPT ![existingIndex + 1].dir = nextDir(current.dir)]
     ELSE IF existingIndex = -1 THEN << [fieldKey |-> fieldKey, dir |-> "asc"] >>
          ELSE IF current.dir = "desc" THEN <<>>
          ELSE << [fieldKey |-> fieldKey, dir |-> nextDir(current.dir)] >>

\* a click on the header of a rendered column
handleHeaderClick(colIndex, shiftKey) ==
  /\ UserReady
  /\ \E of \in {orderedFields(fields, prefs)} :
       /\ colIndex < Len(of)
       /\ grid' = [grid EXCEPT !.sorts = nextSorts(@, of[colIndex + 1].field_key, shiftKey)]
  /\ UNCHANGED <<store, storeCols, nextId, notif, leads, fields, loading, searchQuery,
                 prefs, undoStack, redoStack, tasks, reloads, obs>>

\* typing into the filter box of a column, and the button Clear filters
setFilters(fieldKey, value) ==
  /\ UserReady
  /\ fieldKey \in {f.field_key : f \in Range(orderedFields(fields, prefs))}
  /\ \E next \in {[k \in DOMAIN grid.filters \cup {fieldKey} |->
                     IF k = fieldKey THEN value ELSE grid.filters[k]]} :
       /\ next # grid.filters
       /\ grid' = [grid EXCEPT !.filters = next]
  /\ UNCHANGED <<store, storeCols, nextId, notif, leads, fields, loading, searchQuery,
                 prefs, undoStack, redoStack, tasks, reloads, obs>>

clearFilters ==
  /\ UserReady
  /\ DOMAIN grid.filters # {}
  /\ grid' = [grid EXCEPT !.filters = InitGrid.filters]
  /\ UNCHANGED <<store, storeCols, nextId, notif, leads, fields, loading, searchQuery,
                 prefs, undoStack, redoStack, tasks, reloads, obs>>

\* Pin or Unpin of the checked rows, from the call to the state update that
\* follows the store's answer; the pinned column of the table is read by
\* loadData only
setPinnedForSelected(ids, value) ==
  /\ UserReady
  /\ ids # {}
  /\ \E next \in {[i \in 1..Len(leads) |->
                     IF leads[i].id \in ids THEN [leads[i] EXCEPT !.pinned = value]
                     ELSE leads[i]]} :
       /\ next # leads
       /\ leads' = next
  /\ UNCHANGED <<grid, store, storeCols, nextId, notif, fields, loading, searchQuery,
                 prefs, undoStack, redoStack, tasks, reloads, obs>>

\* a.localeCompare(b) for the values of the model, which are made of blanks,
\* commas, digits and letters: blank before comma before digits before
\* letters, letters in alphabetical order whatever their case, and, between
\* texts that differ in case only, lower case before upper case
localeCompare(a, b) ==
  LET Primary(ch) ==
        IF IsWhite(ch) THEN 0
        ELSE IF ch = "," THEN 1
        ELSE IF ch \in Range(Digits) THEN 1 + (CHOOSE i \in 1..10 : Digits[i] = ch)
        ELSE 11 + (CHOOSE i \in 1..26 : LowerChars[i] = LowerChar(ch))
      Tertiary(ch) == IF ch \in Range(UpperChars) THEN 1 ELSE 0
      RECURSIVE Lex(_, _)
      Lex(x, y) ==
        IF x = <<>> THEN (IF y = <<>> THEN 0 ELSE -1)
        ELSE IF y = <<>> THEN 1
        ELSE IF Head(x) < Head(y) THEN -1
        ELSE IF Head(x) > Head(y) THEN 1
        ELSE Lex(Tail(x), Tail(y))
      primary == Lex([i \in 1..Len(a) |-> Primary(a[i])], [i \in 1..Len(b) |-> Primary(b[i])])
  IN IF primary # 0 THEN primary
     ELSE Lex([i \in 1..Len(a) |-> Tertiary(a[i])], [i \in 1..Len(b) |-> Tertiary(b[i])])

\* the first step of the comparator: bp - ap
pinnedOrder_none(a, b) == 0

pinnedOrder(a, b) ==
  (IF b.lead.pinned THEN 1 ELSE 0) - (IF a.lead.pinned THEN 1 ELSE 0)

\* the comparison of two values under one sort rule, before the direction
ruleCompare(av, bv) ==
  LET NoComma(ch) == ch # ","
      an == Number(SeqFilter(av, NoComma))
      bn == Number(SeqFilter(bv, NoComma))
  IN IF ~an.nan /\ ~bn.nan /\ trim(av) # <<>> /\ trim(bv) # <<>>
     THEN an.n - bn.n
     ELSE localeCompare(av, bv)

\* the comparator filteredLeads hands to sort, on entries {lead, idx}
compareEntries(a, b, rules) ==
  LET Value(e, key) == IF e.lead.vals[key] = NULL THEN <<>> ELSE e.lead.vals[key]
      RECURSIVE ByRules(_)
      ByRules(rs) ==
        IF rs = <<>> THEN a.idx - b.idx
        ELSE LET cmp == ruleCompare(Value(a, Head(rs).fieldKey), Value(b, Head(rs).fieldKey))
             IN IF cmp # 0 THEN (IF Head(rs).dir = "asc" THEN cmp ELSE 0 - cmp)
                ELSE ByRules(Tail(rs))
  IN IF pinnedOrder(a, b) # 0 THEN pinnedOrder(a, b) ELSE ByRules(rules)

\* Array.prototype.sort with this comparator: an insertion or merge sort puts
\* each entry at a place where the comparator accepts both neighbours (not
\* after the entry before it, before the entry after it). A comparator that
\* orders the entries consistently leaves one such place, the stable sort;
\* one that does not leaves the order to the engine
sortOutcomes(entries, rules) ==
  LET Places(pre, x) ==
        {p \in 0..Len(pre) :
           /\ p = 0 \/ compareEntries(pre[p], x, rules) <= 0
           /\ p = Len(pre) \/ compareEntries(x, pre[p + 1], rules) < 0}
      RECURSIVE Outs(_)
      Outs(n) ==
        IF n = 0 THEN {<<>>}
        ELSE UNION {{SubSeq(pre, 1, p) \o <<entries[n]>> \o SubSeq(pre, p + 1, Len(pre)) :
                       p \in Places(pre, entries[n])} : pre \in Outs(n - 1)}
  IN Outs(Len(entries))

\* the records that pass the search and every filter with text in it
passesFilters(lead, sq, filters) ==
  /\ filteredLeads(<<lead>>, sq) = <<lead>>
  /\ \A fieldKey \in DOMAIN filters :
       trim(filters[fieldKey]) # <<>> =>
         includes(toLowerCase(IF lead.vals[fieldKey] = NULL THEN <<>> ELSE lead.vals[fieldKey]),
                  toLowerCase(trim(filters[fieldKey])))

\* filteredLeads of the temp view: the row sequences the grid can be given
filteredLeadsTemp(ls, sq, filters, sorts) ==
  LET indexed == [i \in 1..Len(ls) |-> [lead |-> ls[i], idx |-> i - 1]]
      Passes(e) == passesFilters(e.lead, sq, filters)
      filtered == SeqFilter(indexed, Passes)
  IN {[i \in 1..Len(sorted) |-> sorted[i].lead] : sorted \in sortOutcomes(filtered, sorts)}

-----------------------------------------------------------------------------
(* Inputs *)
X == <<"x">>
Ypad == <<" ", "y", " ">>
Empty == <<>>

UndoMatrices ==
  { << <<Ypad>>, <<X>> >> }

PasteMatrices ==
  { << <<X>> >>,
    << <<Ypad>>, <<Empty>> >>,
    << <<X, Ypad, X, X>> >> }

HeaderMatrices ==
  { << <<X, Empty>>, <<X, Ypad>> >>,
    << <<<<"E","M","A","I","L">>, X>>, <<X, Ypad>> >>,
    << <<<<" ","T","a","g">>, X, <<"e","m","a","i","l">>>>, <<X, X, Ypad>> >> }

SearchQueries == { <<>>, <<" ", "B">> }

EditData == { X }

RemoteValues == { <<"r">> }

VisibleRows == 0..(Len(filteredLeads(leads, searchQuery)) - 1)
VisibleCols == 0..(Len(orderedFields(fields, prefs)) - 1)

Background ==
  \/ \E j \in 1..MaxReloads : ReloadSelect(j)
  \/ \E j \in 1..MaxReloads : ReloadReturn(j)
  \/ Notified

\* the awaits of a running applyMatrix
ApplySteps ==
  \/ \E i \in 1..Len(tasks) : TaskEnsure(i)
  \/ \E i \in 1..Len(tasks) : \E u \in tasks[i].pending : TaskUpdate(i, u)
  \/ \E i \in 1..Len(tasks) : ApplyFinish(i)

\* the awaits of a running undo or redo
UndoSteps ==
  \/ \E i \in 1..Len(tasks) : TaskRows(i)
  \/ \E i \in 1..Len(tasks) : UndoRedoFinish(i)

\* the user can start a handler: the grid is rendered and the bounds leave room
CanStart(maxTasks, maxOps) == UserReady /\ TaskRoom(maxTasks) /\ OpsRoom(maxOps)

\* one view with its undo history, next to another editor; a handler is
\* started when the one before has returned
Next ==
  \/ Background
  \/ ApplySteps
  \/ UndoSteps
  \/ \E i \in 1..Len(tasks) : EditFinish(i)
  \/ \E v \in RemoteValues : RemoteWrite(1, K_email, v)
  \/ /\ CanStart(1, MaxOps)
     /\ \E row \in VisibleRows, m \in UndoMatrices : handlePaste(1, row, m)
  \/ /\ CanStart(1, MaxOps)
     /\ \E d \in EditData : handleCellsEdited(<< [col |-> 2, row |-> 0, data |-> d] >>)
  \/ CanStart(1, MaxOps) /\ handleUndo
  \/ CanStart(1, MaxOps) /\ handleRedo
  \/ \E w \in {"undo", "redo"} : UndoRedoNoop(w)

Spec == Init /\ [][Next]_vars

\* undo and redo pressed while earlier handlers are still awaiting the store
NextRace ==
  \/ Background
  \/ ApplySteps
  \/ UndoSteps
  \/ /\ CanStart(MaxTasks, MaxOps)
     /\ \E row \in VisibleRows, m \in UndoMatrices : handlePaste(1, row, m)
  \/ CanStart(MaxTasks, MaxOps) /\ handleUndo
  \/ CanStart(MaxTasks, MaxOps) /\ handleRedo
  \/ \E w \in {"undo", "redo"} : UndoRedoNoop(w)

SpecRace == Init /\ [][NextRace]_vars

\* the paste paths of the grid, one paste at a time
NextPaste ==
  \/ Background
  \/ ApplySteps
  \/ \E q \in SearchQueries : SetSearchQuery(q)
  \/ \E b \in BOOLEAN : SetAutoAddRows(b)
  \/ \E b \in BOOLEAN : SetPasteHeaderMap(b)
  \/ /\ CanStart(1, MaxPastes)
     /\ \E col \in VisibleCols, row \in VisibleRows, m \in PasteMatrices \cup HeaderMatrices :
          handlePaste(col, row, m)
  \/ /\ CanStart(1, MaxPastes)
     /\ \E x \in VisibleCols, y \in VisibleRows : handleDelete(x, y, 1, 1)

SpecPaste == Init /\ [][NextPaste]_vars

\* the selection of the table grid: clicks and drags on cells and headers
\* while the search box narrows the view
NextSelect ==
  \/ \E j \in 1..MaxReloads : ReloadSelect(j)
  \/ \E j \in 1..MaxReloads : ReloadReturn(j)
  \/ \E q \in SearchQueries : SetSearchQuery(q)
  \/ \E mod \in {"none", "shift", "ctrl"}, r \in VisibleRows, c \in VisibleCols \cap {1, 2} :
       handleCellMouseDown(mod, r, c)
  \/ \E r \in VisibleRows, c \in VisibleCols \cap {1, 2} : handleCellMouseEnter(r, c)
  \/ \E mod \in {"none", "shift", "ctrl"}, c \in VisibleCols \cap {1, 2} :
       handleHeaderMouseDown("col", mod, c)
  \/ \E mod \in {"none", "shift", "ctrl"}, r \in VisibleRows : handleHeaderMouseDown("row", mod, r)
  \/ \E r \in VisibleRows : handleHeaderMouseEnter("row", r)
  \/ \E c \in VisibleCols \cap {1, 2} : handleHeaderMouseEnter("col", c)
  \/ handleGridMouseUp

SpecSelect == Init /\ [][NextSelect]_vars

\* the Delete key of the table grid on a selection of column email, while
\* the search box narrows the view; the auto-add box is touched between
\* handlers
NextDelete ==
  \/ \E j \in 1..MaxReloads : ReloadSelect(j)
  \/ \E j \in 1..MaxReloads : ReloadReturn(j)
  \/ ApplySteps
  \/ \E q \in SearchQueries : SetSearchQuery(q)
  \/ \E b \in BOOLEAN : tasks = <<>> /\ ~DeleteRunning /\ SetAutoAddRows(b)
  \/ \E mod \in {"none", "ctrl"}, r \in VisibleRows : handleCellMouseDown(mod, r, 1)
  \/ handleGridMouseUp
  \/ TaskRoom(1) /\ OpsRoom(MaxGridOps) /\ handleKeyDownDelete
  \/ TaskRoom(1) /\ OpsRoom(MaxGridOps) /\ DeleteNext

SpecDelete == Init /\ [][NextDelete]_vars

\* the fill handle of the table grid on column email: a drag from a selected
\* cell, and clicks while the applyMatrix of a fill is awaiting the store
NextFill ==
  \/ \E j \in 1..MaxReloads : ReloadSelect(j)
  \/ \E j \in 1..MaxReloads : ReloadReturn(j)
  \/ ApplySteps
  \/ \E r \in VisibleRows : handleCellMouseDown("none", r, 1)
  \/ \E r \in VisibleRows : handleCellMouseEnter(r, 1)
  \/ FillHandleMouseDown
  \/ TaskRoom(MaxTasks) /\ OpsRoom(MaxGridOps) /\ handleGridMouseUp

SpecFill == Init /\ [][NextFill]_vars

\* the outreach view: cell clicks, the search box, the auto-add box and
\* pastes, one at a time
NextOutreach ==
  \/ outreachLoadData
  \/ \E i \in 1..Len(tasks) : TaskEnsure(i)
  \/ \E i \in 1..Len(tasks) : \E u \in tasks[i].pending : TaskUpdate(i, u)
  \/ \E i \in 1..Len(tasks) : outreachPasteFinish(i)
  \/ \E q \in {<<>>, <<"A", " ">>} : SetSearchQuery(q)
  \/ \E b \in BOOLEAN : tasks = <<>> /\ SetAutoAddRows(b)
  \/ \E r \in VisibleRows, c \in VisibleCols : outreachCellClick(r, c)
  \/ /\ CanStart(1, MaxPastes)
     /\ \E m \in PasteMatrices \cup UndoMatrices : outreachHandlePaste(m)

SpecOutreach == InitOutreach /\ [][NextOutreach]_vars

\* the temp view with three loaded records, name and phone shown: header
\* clicks, the filter of the name column, the search box, Pin and Unpin
SortNames == << <<"B">>, <<"A">>, <<"A">> >>
SortNumbers == { <<"9">>, <<"1", "0">>, <<"1", "a">> }
SortFilterTexts == { <<"a">>, <<" ">> }

InitSort ==
  /\ \E numbers \in [1..3 -> SortNumbers] :
       /\ store = [i \in 1..3 |->
                     [EmptyVals EXCEPT ![K_name] = SortNames[i], ![K_phone] = numbers[i]]]
       /\ leads = [i \in 1..3 |-> [id |-> i, vals |-> store[i], pinned |-> FALSE]]
  /\ storeCols = {}
  /\ nextId = 4
  /\ notif = 0
  /\ fields = LeadFields
  /\ loading = FALSE
  /\ searchQuery = <<>>
  /\ prefs = [InitPrefs EXCEPT !.hidden = <<K_email, K_website, K_outreach_method, K_tag>>]
  /\ undoStack = <<>>
  /\ redoStack = <<>>
  /\ tasks = <<>>
  /\ reloads = <<>>
  /\ grid = InitGrid
  /\ obs = InitObs

NextSort ==
  \/ \E c \in VisibleCols, shiftKey \in BOOLEAN : handleHeaderClick(c, shiftKey)
  \/ \E v \in SortFilterTexts : setFilters(K_name, v)
  \/ clearFilters
  \/ \E q \in SearchQueries : SetSearchQuery(q)
  \/ \E id \in 1..3, value \in BOOLEAN : setPinnedForSelected({id}, value)

SpecSort == InitSort /\ [][NextSort]_vars

\* the temp view next to another editor of its table: the view has no
\* realtime subscription, its loadData runs on mount and at the end of its
\* own handlers. Every call that was issued is answered.
NextTempSync ==
  \/ \E j \in 1..MaxReloads : ReloadSelect(j)
  \/ \E j \in 1..MaxReloads : ReloadReturn(j)
  \/ \E i \in 1..Len(tasks) : \E u \in tasks[i].pending : TaskUpdate(i, u)
  \/ \E i \in 1..Len(tasks) : EditFinish(i)
  \/ \E id \in Ids, v \in RemoteValues : RemoteWrite(id, K_email, v)
  \/ /\ CanStart(1, MaxOps)
     /\ \E row \in VisibleRows, col \in VisibleCols, d \in EditData :
          handleCellsEdited(<< [col |-> col, row |-> row, data |-> d] >>)

Answered ==
  /\ WF_vars(\E j \in 1..MaxReloads : ReloadSelect(j))
  /\ WF_vars(\E j \in 1..MaxReloads : ReloadReturn(j))
  /\ WF_vars(\E i \in 1..Len(tasks) : \E u \in tasks[i].pending : TaskUpdate(i, u))
  /\ WF_vars(\E i \in 1..Len(tasks) : EditFinish(i))

SpecTempSync == Init /\ [][NextTempSync]_vars /\ Answered

\* the master view next to another editor: the subscription callback runs
\* for every event that was sent
NextMasterSync ==
  \/ NextTempSync
  \/ Notified

SpecMasterSync == Init /\ [][NextMasterSync]_vars /\ Answered /\ WF_vars(Notified)

\* the master view next to another editor, with loadData calls that overlap:
\* the responses arrive in any order
NextReload ==
  \/ \E j \in 1..MaxOverlap : ReloadSelect(j)
  \/ \E j \in 1..MaxOverlap : ReloadReturn(j)
  \/ NotifiedWithin(MaxOverlap)
  \/ \E id \in Ids, k \in {K_name, K_email}, v \in RemoteValues : RemoteWrite(id, k, v)
  \/ ApplySteps
  \/ /\ CanStart(1, 1)
     /\ \E row \in VisibleRows, m \in UndoMatrices : handlePaste(1, row, m)

SpecReload == Init /\ [][NextReload]_vars

\* copy, cut and paste keys of the temp view, on a clipboard that may refuse
NextClip ==
  \/ \E j \in 1..MaxReloads : ReloadSelect(j)
  \/ \E j \in 1..MaxReloads : ReloadReturn(j)
  \/ ApplySteps
  \/ \E r \in VisibleRows : handleCellMouseDown("none", r, 1)
  \/ handleGridMouseUp
  \/ \E refused \in BOOLEAN : handleKeyDownCopy(refused)
  \/ /\ TaskRoom(1) /\ OpsRoom(MaxGridOps)
     /\ \E refused \in BOOLEAN : handleKeyDownPaste(refused)
  \/ /\ CanStart(1, MaxGridOps)
     /\ \E isCut, refused \in BOOLEAN, y \in VisibleRows : gridKeyDown(isCut, refused, 1, y, 1, 1)

SpecClip == Init /\ [][NextClip]_vars

\* the table grid of the temp view with a clipboard another application has
\* filled: the user selects cells, searches, copies and pastes
InitText ==
  /\ store = InitStore
  /\ storeCols = {}
  /\ nextId = 3
  /\ notif = 0
  /\ leads = <<>>
  /\ fields = <<>>
  /\ loading = TRUE
  /\ searchQuery = <<>>
  /\ prefs = InitPrefs
  /\ undoStack = <<>>
  /\ redoStack = <<>>
  /\ tasks = <<>>
  /\ reloads = <<SentReload>>
  /\ grid = InitGrid
  /\ \E text \in Texts : obs = [InitObs EXCEPT !.text = text]

NextText ==
  \/ \E j \in 1..MaxReloads : ReloadSelect(j)
  \/ \E j \in 1..MaxReloads : ReloadReturn(j)
  \/ ApplySteps
  \/ \E r \in VisibleRows : handleCellMouseDown("none", r, 0)
  \/ handleGridMouseUp
  \/ \E q \in SearchQueries : SetSearchQuery(q)
  \/ \E y \in VisibleRows : gridKeyDown(FALSE, FALSE, 0, y, 2, 1)
  \/ CanStart(1, 1) /\ handleKeyDownPaste(FALSE)
  \/ CanStart(1, 1) /\ onPaste

SpecText == InitText /\ [][NextText]_vars

\* the ranges of a fill gesture, as the Glide grid hands them over: the
\* destination holds the source and goes on below it or to its right
Rect(x, y, width, height) == [x |-> x, y |-> y, width |-> width, height |-> height]

FillGestures ==
  { <<Rect(0, 0, 1, 2), Rect(0, 0, 1, 3)>>,
    <<Rect(0, 0, 2, 1), Rect(0, 0, 3, 1)>>,
    <<Rect(0, 0, 1, 1), Rect(0, 0, 1, 2)>>,
    <<Rect(0, 0, 2, 2), Rect(0, 0, 2, 3)>> }

\* three records are loaded; the first two cells of the first column and of
\* the first row hold the values a and b
InitFilled(a, b) ==
  /\ store = (1 :> [EmptyVals EXCEPT ![K_name] = a, ![K_email] = b]) @@
             (2 :> [EmptyVals EXCEPT ![K_name] = b]) @@
             (3 :> [EmptyVals EXCEPT ![K_name] = X])
  /\ storeCols = {}
  /\ nextId = 4
  /\ notif = 0
  /\ leads = SelectLeads(store)
  /\ fields = LeadFields
  /\ loading = FALSE
  /\ searchQuery = <<>>
  /\ prefs = InitPrefs
  /\ undoStack = <<>>
  /\ redoStack = <<>>
  /\ tasks = <<>>
  /\ reloads = <<>>
  /\ grid = InitGrid
  /\ obs = InitObs

\* fills of numbers and of plain text, on the table grid and on the Glide grid
SeriesNumbers == { <<"1">>, <<"3">>, X }

InitSeries == \E a, b \in SeriesNumbers : InitFilled(a, b)

NextSeries ==
  \/ \E j \in 1..MaxReloads : ReloadSelect(j)
  \/ \E j \in 1..MaxReloads : ReloadReturn(j)
  \/ ApplySteps
  \/ handleCellMouseDown("none", 0, 0)
  \/ \E cell \in {<<1, 0>>, <<2, 0>>, <<0, 1>>, <<0, 2>>} :
       handleCellMouseEnter(cell[1], cell[2])
  \/ FillHandleMouseDown
  \/ TaskRoom(1) /\ OpsRoom(1) /\ handleGridMouseUp
  \/ /\ CanStart(1, 1) /\ grid.pointer = "up"
     /\ \E g \in FillGestures : handleFillPattern(g[1], g[2])

SpecSeries == InitSeries /\ [][NextSeries]_vars

\* fills of the Glide grid over numbers, dates, numbered names and words
SeriesPairs ==
  { << <<"1">>, <<"3">> >>,
    << <<"I","N","V","-","0","0","1">>, <<"I","N","V","-","0","0","2">> >>,
    << <<"I","N","V","-","0","0","1">>, X >>,
    << <<"J","a","n"," ","1"," ","2","0","2","4">>,
       <<"J","a","n"," ","2"," ","2","0","2","4">> >>,
    << <<"2","0","2","4","-","0","1","-","3","1">>,
       <<"2","0","2","4","-","0","2","-","0","1">> >>,
    << <<"2","0","2","4","-","0","1","-","0","1","T","0","0",":","0","0","Z">>,
       <<"2","0","2","4","-","0","1","-","0","2","T","0","0",":","0","0","Z">> >>,
    << <<"r","e","d">>, <<"b","l","u","e">> >> }

InitPattern == \E p \in SeriesPairs : InitFilled(p[1], p[2])

NextPattern ==
  \/ \E j \in 1..MaxReloads : ReloadSelect(j)
  \/ \E j \in 1..MaxReloads : ReloadReturn(j)
  \/ ApplySteps
  \/ /\ CanStart(1, MaxGridOps)
     /\ \E g \in FillGestures : handleFillPattern(g[1], g[2])

SpecPattern == InitPattern /\ [][NextPattern]_vars

\* the bulk deletes of the temp view on checked rows
NextBulk ==
  \/ \E j \in 1..MaxReloads : ReloadSelect(j)
  \/ \E j \in 1..MaxReloads : ReloadReturn(j)
  \/ \E q \in SearchQueries : SetSearchQuery(q)
  \/ \E rowNumbers \in SUBSET VisibleRows : onGridSelectionChange(rowNumbers)
  \/ \E accepted \in BOOLEAN : TaskRoom(1) /\ deleteSelected(accepted)
  \/ \E accepted \in BOOLEAN : TaskRoom(1) /\ clearTempLeads(accepted)
  \/ \E i \in 1..Len(tasks) : BulkDelete(i)
  \/ \E i \in 1..Len(tasks) : BulkFinish(i)

SpecBulk == Init /\ [][NextBulk]_vars

\* the methods the select above the grid offers
BulkMethods == { outreachOptions[2].key }

\* the bulk operations of the master view on ticked rows, after cell edits
\* and undos have filled the history
NextBulkMaster ==
  \/ Background
  \/ \E i \in 1..Len(tasks) : \E u \in tasks[i].pending : TaskUpdate(i, u)
  \/ UndoSteps
  \/ \E i \in 1..Len(tasks) : EditFinish(i)
  \/ /\ CanStart(1, MaxOps)
     /\ \E d \in EditData : handleCellsEdited(<< [col |-> 1, row |-> 0, data |-> d] >>)
  \/ CanStart(1, MaxOps) /\ handleUndo
  \/ \E rowNumbers \in SUBSET VisibleRows : onGridSelectionChange(rowNumbers)
  \/ \E value \in BulkMethods : setBulkMethod(value)
  \/ TaskRoom(1) /\ applyBulkMethod
  \/ TaskRoom(1) /\ deleteSelected(TRUE)
  \/ \E i \in 1..Len(tasks) : BulkDelete(i)
  \/ \E i \in 1..Len(tasks) : BulkUpdate(i)
  \/ \E i \in 1..Len(tasks) : BulkReject(i)
  \/ \E i \in 1..Len(tasks) : BulkFinish(i)

SpecBulkMaster == Init /\ [][NextBulkMaster]_vars

\* rows are ticked in the master view while the search box narrows the view
\* and the realtime subscription reloads it
NextTick ==
  \/ Background
  \/ \E q \in SearchQueries : SetSearchQuery(q)
  \/ \E rowNumbers \in SUBSET VisibleRows : onGridSelectionChange(rowNumbers)
  \/ \E value \in BulkMethods : setBulkMethod(value)
  \/ TaskRoom(1) /\ applyBulkMethod
  \/ TaskRoom(1) /\ deleteSelected(TRUE)
  \/ \E i \in 1..Len(tasks) : BulkDelete(i)
  \/ \E i \in 1..Len(tasks) : BulkUpdate(i)
  \/ \E i \in 1..Len(tasks) : BulkReject(i)
  \/ \E i \in 1..Len(tasks) : BulkFinish(i)

SpecTick == Init /\ [][NextTick]_vars

\* what is typed into the cell editor
EditTexts == { X, Empty }

\* cells of the temp view's table grid are edited one by one, on a column of
\* the table (email) and on one the table does not have yet (tag), with undo
\* in between; Enter and blur may both call handleCellUpdate for one edit
NextEdit ==
  \/ \E j \in 1..MaxReloads : ReloadSelect(j)
  \/ \E j \in 1..MaxReloads : ReloadReturn(j)
  \/ \E rowIndex \in VisibleRows, colIndex \in {1, 2} : handleCellClick(rowIndex, colIndex)
  \/ \E value \in EditTexts : setEditValue(value)
  \/ CanStart(MaxTasks, MaxOps) /\ handleCellUpdate
  \/ \E i \in 1..Len(tasks), fails \in BOOLEAN : CellWrite(i, fails)
  \/ \E i \in 1..Len(tasks) : CellFinish(i)
  \/ CanStart(1, MaxOps) /\ handleUndo
  \/ \E i \in 1..Len(tasks) : \E u \in tasks[i].pending : TaskUpdate(i, u)
  \/ \E i \in 1..Len(tasks) : UndoRedoFinish(i)

SpecEdit == Init /\ [][NextEdit]_vars

\* the fields the column menu is used on
MenuFields == { K_email, K_phone }

\* columns are dragged while the column menu hides and shows fields
NextColumns ==
  \/ \E j \in 1..MaxReloads : ReloadSelect(j)
  \/ \E j \in 1..MaxReloads : ReloadReturn(j)
  \/ \E fieldKey \in MenuFields : toggleFieldVisibility(fieldKey)
  \/ \E startIndex \in VisibleCols, endIndex \in VisibleCols :
       handleColumnMoved(startIndex, endIndex)

SpecColumns == Init /\ [][NextColumns]_vars

\* a long history: one cell is edited over and over, with undo in between
NextCap ==
  \/ \E j \in 1..MaxReloads : ReloadSelect(j)
  \/ \E j \in 1..MaxReloads : ReloadReturn(j)
  \/ \E i \in 1..Len(tasks) : \E u \in tasks[i].pending : TaskUpdate(i, u)
  \/ \E i \in 1..Len(tasks) : EditFinish(i)
  \/ \E i \in 1..Len(tasks) : UndoRedoFinish(i)
  \/ /\ CanStart(1, MaxHistory)
     /\ \E d \in EditData : handleCellsEdited(<< [col |-> 1, row |-> 0, data |-> d] >>)
  \/ CanStart(1, MaxHistory) /\ handleUndo
  \/ Remount

SpecCap == Init /\ [][NextCap]_vars

-----------------------------------------------------------------------------
(* Properties of the undo history *)

\* the step starts a handler of the given kind
Begins(kind) == Len(tasks') = Len(tasks) + 1 /\ tasks'[Len(tasks')].kind = kind

\* the step is the return of handler i, which is of one of the given kinds
Completes(i, kinds) ==
  /\ i \in 1..Len(tasks)
  /\ tasks[i].kind \in kinds
  /\ Len(tasks') = Len(tasks) - 1
  /\ tasks' = RemoveAt(tasks, i)

\* C1: when a matrix-apply ran on store state S and its undo has completed,
\* with no other writer in between, the store is in state S again
C1_UndoRestores == obs.track = "undone" => store = obs.pre

\* C2: when an applied action was undone and then redone, with no other writer
\* in between, the store is in the state the action left, and the rows the
\* action inserted exist again under their original identifiers
C2_RedoReapplies ==
  obs.track = "redone" =>
    /\ store = obs.post
    /\ \A i \in 1..Len(undoStack[Len(undoStack)].insertedRows) :
         undoStack[Len(undoStack)].insertedRows[i].id \in DOMAIN store

\* a redo of an action with an inserted row has completed
C2_Witness ==
  /\ obs.track = "redone"
  /\ undoStack[Len(undoStack)].insertedRows # <<>>
  /\ undoStack[Len(undoStack)].changes # <<>>
  /\ store # obs.pre

\* the step is the return of handler i and the handler has written to the
\* store: its updates were accepted or its insert was
Wrote(i) == store' # store \/ (tasks[i].ok /\ tasks[i].changes # <<>>)

\* C3: the return of every apply or cell edit that wrote to the store pushes
\* exactly one change-set on the undo stack and leaves the redo stack empty
C3_PushClearsRedo ==
  [][\A i \in 1..Len(tasks) :
       (Completes(i, {"apply", "edit"}) /\ Wrote(i)) =>
         /\ Len(undoStack') = Len(undoStack) + 1
         /\ SubSeq(undoStack', 1, Len(undoStack)) = undoStack
         /\ undoStack'[Len(undoStack')].changes = tasks[i].changes
         /\ redoStack' = <<>>]_vars

\* C22: the return of an apply or cell edit of which the store rejected an
\* update leaves the undo stack and the redo stack as they were
C22_PushOnlyAccepted ==
  [][\A i \in 1..Len(tasks) :
       (Completes(i, {"apply", "edit"}) /\ ~tasks[i].ok) =>
         UNCHANGED <<undoStack, redoStack>>]_vars

\* C4: undo and redo move exactly the newest change-set from one stack to the
\* other, also while a matrix-apply is in flight; they never start on an empty
\* stack, the early return changes nothing, and no other step but the return
\* of an apply or cell edit touches the stacks
C4_MovesTop ==
  [][/\ Begins("undo") =>
          /\ undoStack # <<>>
          /\ undoStack' = SubSeq(undoStack, 1, Len(undoStack) - 1)
          /\ redoStack' = Append(redoStack, undoStack[Len(undoStack)])
     /\ Begins("redo") =>
          /\ redoStack # <<>>
          /\ redoStack' = SubSeq(redoStack, 1, Len(redoStack) - 1)
          /\ undoStack' = Append(undoStack, redoStack[Len(redoStack)])
     /\ obs'.noop # obs.noop =>
          /\ IF obs'.noop = "undo" THEN undoStack = <<>> ELSE redoStack = <<>>
          /\ UNCHANGED <<store, undoStack, redoStack, tasks, reloads>>
     /\ (~Begins("undo") /\ ~Begins("redo")
         /\ ~(\E i \in 1..Len(tasks) : Completes(i, {"apply", "edit"}))) =>
          UNCHANGED <<undoStack, redoStack>>]_vars

\* an undo was started beside a running matrix-apply and moved a change-set
\* off a stack that held an older one
C4_Witness ==
  /\ \E i, j \in 1..Len(tasks) : tasks[i].kind = "apply" /\ tasks[j].kind = "undo"
  /\ redoStack # <<>>

-----------------------------------------------------------------------------
(* Properties of the matrix-apply *)

\* the field keys a matrix row reaches when it is laid out from column col
\* (counted from 0) over the visible columns cols, cut off after the last one
StdKeys(cols, col, mrow) ==
  {cols[col + c] : c \in {c \in 1..Len(mrow) : col + c <= Len(cols)}}

\* column j of the grid takes the cell j - col of the matrix row
StdPayload(cols, col, mrow) ==
  [k \in StdKeys(cols, col, mrow) |->
     CellValue(mrow[(CHOOSE j \in 1..Len(cols) : cols[j] = k) - col])]

\* the updates of a standard apply of matrix m anchored at (row, col)
StdUpdates(ids, cols, row, col, m) ==
  {[id |-> ids[row + r], payload |-> StdPayload(cols, col, m[r])] :
     r \in {r \in 1..Len(m) : row + r <= Len(ids) /\ StdKeys(cols, col, m[r]) # {}}}

\* the payloads of the rows a standard apply appends, top to bottom
StdInserts(ids, cols, autoAdd, row, col, m) ==
  LET over == IF autoAdd THEN {r \in 1..Len(m) : row + r > Len(ids)} ELSE {}
      first == Len(m) - Cardinality(over)
  IN [n \in 1..Cardinality(over) |->
        [k \in {K_name, K_outreach_method} \cup StdKeys(cols, col, m[first + n]) |->
           IF k \in StdKeys(cols, col, m[first + n])
           THEN StdPayload(cols, col, m[first + n])[k]
           ELSE IF k = K_name THEN NewLeadName ELSE NULL]]

\* the insert payloads of a running apply
InsertVals(t) == [n \in 1..Len(t.inserts) |-> t.inserts[n].vals]

ApplyTasks == {i \in 1..Len(tasks) : tasks[i].kind = "apply"}

\* the matrix of the apply reaches below the last visible row
BelowLastRow(c) == c.row + Len(c.data) > Len(c.ids)

\* C6: with auto-add off, an apply whose matrix reaches below the last
\* visible row inserts nothing for the rows out of range and still updates
\* every row in range
C6_NoAutoAdd ==
  \A i \in ApplyTasks :
    LET c == tasks[i].call
    IN (~c.autoAdd /\ BelowLastRow(c)) =>
         /\ tasks[i].inserts = <<>>
         /\ \A r \in 1..Len(c.data) :
              (c.row + r <= Len(c.ids) /\ c.startCol < Len(c.cols) /\ c.data[r] # <<>>) =>
                \E u \in c.updates : u.id = c.ids[c.row + r]
         /\ \A u \in c.updates :
              \E r \in 1..Len(c.data) : c.row + r <= Len(c.ids) /\ u.id = c.ids[c.row + r]

\* with auto-add off a matrix of two rows is applied at the last visible row
C6_Witness ==
  \E i \in ApplyTasks :
    /\ ~tasks[i].call.autoAdd /\ BelowLastRow(tasks[i].call)
    /\ tasks[i].call.updates # {}
    /\ tasks[i].pc = "updates" /\ tasks[i].pending = {}

\* C7: an apply writes a cell only to the column anchorCol + c; the cells
\* with anchorCol + c beyond the last visible column are written nowhere
C7_NoWrap ==
  \A i \in ApplyTasks :
    LET c == tasks[i].call
    IN /\ c.updates = StdUpdates(c.ids, c.cols, c.row, c.startCol, c.data)
       /\ InsertVals(tasks[i]) =
            StdInserts(c.ids, c.cols, c.autoAdd, c.row, c.startCol, c.data)

\* a matrix row wider than the columns right of the anchor has been applied
C7_Witness ==
  \E i \in ApplyTasks :
    LET c == tasks[i].call
    IN /\ c.startCol + Len(c.data[1]) > Len(c.cols)
       /\ c.startCol > 0
       /\ c.updates # {}
       /\ tasks[i].pc = "updates" /\ tasks[i].pending = {}

\* C8: no update or insert that names a field key outside the base set is
\* issued by applyMatrix, a cell edit, undo or redo before an add_lead_column
\* call of the view for that key has returned
C8_EnsuredBeforeWrite == ~obs.unensured

\* the definitions of the visible columns of a running apply
FieldsOf(cols) ==
  [i \in 1..Len(cols) |-> CHOOSE f \in Range(LeadFields) : f.field_key = cols[i]]

\* the number of cells of the first row that name a visible field
HeaderMatches(c) == matchCountOf(FieldsOf(c.cols), c.matrix)

HeaderPastes == {i \in ApplyTasks : tasks[i].call.via = "paste" /\ tasks[i].call.headerMap}

\* C9: a header-mapped paste whose first row names fewer than two fields
\* issues the updates and inserts of the standard apply of the full matrix at
\* the anchor cell of the paste
C9_FallbackAtAnchor ==
  \A i \in HeaderPastes :
    LET c == tasks[i].call
    IN HeaderMatches(c) < 2 =>
         /\ c.updates = StdUpdates(c.ids, c.cols, c.row, c.col, c.matrix)
         /\ InsertVals(tasks[i]) =
              StdInserts(c.ids, c.cols, c.autoAdd, c.row, c.col, c.matrix)

\* the field keys the first row names, and the matrix column that names key k
MatchedKeys(c) ==
  LET cm == columnMapOf(FieldsOf(c.cols), c.matrix)
  IN {c.cols[cm[j] + 1] : j \in {j \in 1..Len(cm) : cm[j] >= 0}}

HeaderColumn(c, k) ==
  LET cm == columnMapOf(FieldsOf(c.cols), c.matrix)
  IN CHOOSE j \in 1..Len(cm) :
       /\ cm[j] >= 0 /\ c.cols[cm[j] + 1] = k
       /\ \A o \in 1..Len(cm) : (cm[o] >= 0 /\ c.cols[cm[o] + 1] = k) => o <= j

\* C10: a header-mapped paste whose first row names at least two fields
\* writes data row r to visible row anchorRow + r - 1, each cell to the field
\* its header names, and writes no other field and no header row
C10_MatchedFieldsOnly ==
  \A i \in HeaderPastes :
    LET c == tasks[i].call
    IN (Len(c.matrix) >= 2 /\ HeaderMatches(c) >= 2) =>
         /\ \A u \in c.updates :
              /\ DOMAIN u.payload \subseteq MatchedKeys(c)
              /\ \E r \in 1..(Len(c.matrix) - 1) :
                   /\ c.row + r <= Len(c.ids)
                   /\ u.id = c.ids[c.row + r]
                   /\ \A k \in DOMAIN u.payload :
                        HeaderColumn(c, k) <= Len(c.matrix[r + 1]) =>
                          u.payload[k] = CellValue(c.matrix[r + 1][HeaderColumn(c, k)])
         /\ \A r \in 1..(Len(c.matrix) - 1) :
              c.row + r <= Len(c.ids) => \E u \in c.updates : u.id = c.ids[c.row + r]
         /\ \A n \in 1..Len(tasks[i].inserts) :
              DOMAIN tasks[i].inserts[n].vals \subseteq
                MatchedKeys(c) \cup {K_name, K_outreach_method}

-----------------------------------------------------------------------------
(* Properties of the stored history *)

\* C5 as stated: neither stack ever holds more than 50 change-sets
C5_StacksBounded == Len(undoStack) <= StackCap /\ Len(redoStack) <= StackCap

\* C5 amended: the copies of the stacks in localStorage hold the newest
\* change-sets of their stack and never more than 50 of them
C5_StoredBounded ==
  /\ Len(storedUndo) <= StackCap
  /\ Len(storedRedo) <= StackCap
  /\ \A n \in 1..Len(storedUndo) :
       storedUndo[n] = undoStack[Len(undoStack) - Len(storedUndo) + n]
  /\ \A n \in 1..Len(storedRedo) :
       storedRedo[n] = redoStack[Len(redoStack) - Len(storedRedo) + n]
  /\ Len(undoStack) > StackCap => Len(storedUndo) = StackCap

\* the undo stack holds more change-sets than are stored
C5_Witness == Len(undoStack) > StackCap /\ tasks = <<>>

-----------------------------------------------------------------------------
(* Properties of the table grid *)

\* C11: Delete or Backspace only clears cells: the return of an applyMatrix
\* the key started leaves the set of record identifiers of the store as it
\* was, whatever the auto-add preference and the search filter
C11_DeleteKeepsRecords ==
  [][\A i \in 1..Len(tasks) :
       (Completes(i, {"apply"}) /\ tasks[i].call.via = "delete") =>
         DOMAIN store' = DOMAIN store]_vars

\* C13: a shift-click on a cell replaces the end of the last range by the
\* clicked cell and leaves the start of that range and every other range as
\* they were
C13_ShiftClickMovesEnd ==
  [][\A r \in 0..(MaxId - 1), c \in 0..(Len(LeadFields) - 1) :
       (grid.ranges # <<>> /\ grid.selection # NoRange
          /\ handleCellMouseDown("shift", r, c)) =>
         grid'.ranges = Append(Front(grid.ranges),
                               [start |-> Last(grid.ranges).start, end |-> Cell(r, c)])]_vars

\* C14: a plain click leaves exactly the single-cell range of the clicked
\* cell; a ctrl-click on a cell outside all ranges appends its single-cell
\* range; a ctrl-click on a cell inside a range leaves the cell unselected
C14_ClickAndToggle ==
  [][\A r \in 0..(MaxId - 1), c \in 0..(Len(LeadFields) - 1) :
       LET single == [start |-> Cell(r, c), end |-> Cell(r, c)]
           inside == \E i \in 1..Len(grid.ranges) : isCellInRange(r, c, grid.ranges[i])
       IN /\ handleCellMouseDown("none", r, c) => grid'.ranges = <<single>>
          /\ (handleCellMouseDown("ctrl", r, c) /\ ~inside) =>
               grid'.ranges = Append(grid.ranges, single)
          /\ (handleCellMouseDown("ctrl", r, c) /\ inside) =>
               ~\E i \in 1..Len(grid'.ranges) : isCellInRange(r, c, grid'.ranges[i])]_vars

\* C15: every range of the selection, normalized, lies inside the visible
\* grid: 0 <= top <= bottom < visible rows and 0 <= left <= right < visible
\* columns, also after the search box or a reload changed the view
C15_RangesInView ==
  \A range \in Range(grid.ranges) \cup ({grid.selection} \ {NoRange}) :
    LET n == normalizeRange(range.start, range.end)
    IN /\ 0 <= n.top /\ n.top <= n.bottom
       /\ n.bottom < Len(filteredLeads(leads, searchQuery))
       /\ 0 <= n.left /\ n.left <= n.right
       /\ n.right < Len(orderedFields(fields, prefs))

\* C16: a mouse-down and a range extension issue no store call; the mouse-up
\* that ends a drag of the fill handle starts exactly one applyMatrix; the
\* mouse-up that ends a plain selection starts none
C16_WritesOnFillOnly ==
  [][/\ (FillHandleMouseDown
          \/ \E r \in 0..(MaxId - 1) :
               handleCellMouseDown("none", r, 1) \/ handleCellMouseEnter(r, 1)) =>
          UNCHANGED <<store, tasks, reloads>>
     /\ (handleGridMouseUp /\ grid.pointer = "handle") =>
          Begins("apply") /\ UNCHANGED <<store, reloads>>
     /\ (handleGridMouseUp /\ grid.pointer = "cell") =>
          UNCHANGED <<store, tasks, reloads>>]_vars

-----------------------------------------------------------------------------
(* Properties of the outreach view *)

\* C12: a paste anchored at a visible cell writes matrix row r to the record
\* shown at visible row anchorRow + r of the filtered view, and to no other
\* record
C12_PasteWritesVisibleRows ==
  \A i \in 1..Len(tasks) :
    LET c == tasks[i].call
    IN (c.via \in {"paste", "outreach"} /\ c.row >= 0) =>
         c.updates = StdUpdates(c.ids, c.cols, c.row, c.startCol, c.data)

-----------------------------------------------------------------------------
(* Properties of the sort and filter view *)

\* the direction of the sort rule of a field, "removed" when it has none
RuleDir(sorts, fieldKey) ==
  IF \E i \in 1..Len(sorts) : sorts[i].fieldKey = fieldKey
  THEN sorts[CHOOSE i \in 1..Len(sorts) : sorts[i].fieldKey = fieldKey].dir
  ELSE "removed"

CycleDir(dir) ==
  CASE dir = "removed" -> "asc" [] dir = "asc" -> "desc" [] dir = "desc" -> "removed"

SortViews == filteredLeadsTemp(leads, searchQuery, grid.filters, grid.sorts)

\* C18: in every row sequence the grid can be given, whatever the records,
\* the search, the filters and the sort rules, no unpinned record comes
\* before a pinned one.
C18_PinnedFirst ==
  \A rows \in SortViews :
    \A i, j \in 1..Len(rows) : (i < j /\ rows[j].pinned) => rows[i].pinned

\* a pinned record is shown before an unpinned one that the first sort rule
\* puts before it
C18_Witness ==
  /\ grid.sorts # <<>>
  /\ \E rows \in SortViews :
       \E i, j \in 1..Len(rows) :
         /\ i < j /\ rows[i].pinned /\ ~rows[j].pinned
         /\ LET fieldKey == grid.sorts[1].fieldKey
                cmp == ruleCompare(rows[i].vals[fieldKey], rows[j].vals[fieldKey])
            IN IF grid.sorts[1].dir = "asc" THEN cmp > 0 ELSE cmp < 0

\* two shown records are in the order of the sort rules: the first rule
\* under which they differ puts x first, and x comes first in the records
\* when they differ under none
InRuleOrder(x, y, ls, rules) ==
  LET Differ(rule) == ruleCompare(x.vals[rule.fieldKey], y.vals[rule.fieldKey]) # 0
      deciding == SeqFilter(rules, Differ)
  IN IF deciding = <<>>
     THEN (CHOOSE i \in 1..Len(ls) : ls[i] = x) < (CHOOSE i \in 1..Len(ls) : ls[i] = y)
     ELSE LET cmp == ruleCompare(x.vals[deciding[1].fieldKey], y.vals[deciding[1].fieldKey])
          IN IF deciding[1].dir = "asc" THEN cmp < 0 ELSE cmp > 0

ExampleLeads ==
  << [id |-> 1, pinned |-> FALSE,
      vals |-> [EmptyVals EXCEPT ![K_phone] = <<"3", "0">>, ![K_name] = <<"B">>]],
     [id |-> 2, pinned |-> FALSE,
      vals |-> [EmptyVals EXCEPT ![K_phone] = <<"2", "0">>, ![K_name] = <<"A">>]],
     [id |-> 3, pinned |-> FALSE,
      vals |-> [EmptyVals EXCEPT ![K_phone] = <<"3", "0">>, ![K_name] = <<"A">>]] >>

\* C19: every row sequence the grid can be given holds exactly the records
\* that pass the search and every filter with text in it, each once, and any
\* two of its records of the same pinned group are in the order of the sort
\* rules, with full ties in the order of the records; number asc then name
\* desc on (30,B), (20,A), (30,A) gives (20,A), (30,B), (30,A).
C19_FilterThenSort ==
  /\ filteredLeadsTemp(ExampleLeads, <<>>, InitGrid.filters,
                       << [fieldKey |-> K_phone, dir |-> "asc"],
                          [fieldKey |-> K_name, dir |-> "desc"] >>)
       = { <<ExampleLeads[2], ExampleLeads[1], ExampleLeads[3]>> }
  /\ \A rows \in SortViews :
       /\ Range(rows) = {lead \in Range(leads) : passesFilters(lead, searchQuery, grid.filters)}
       /\ \A i, j \in 1..Len(rows) :
            i < j =>
              /\ rows[i] # rows[j]
              /\ rows[i].pinned = rows[j].pinned =>
                   InRuleOrder(rows[i], rows[j], leads, grid.sorts)

-----------------------------------------------------------------------------
(* Properties of the realtime subscription *)

\* C20: a change event of the view's table, whoever wrote the change, is
\* followed by a loadData call of the view, which reads the records and the
\* field definitions.
C20_NotificationReloads ==
  (notif > 0) ~> (\E j \in 1..Len(reloads) : reloads[j].stage = "sent")

-----------------------------------------------------------------------------
(* Properties of loadData *)

\* C21: when every write has been answered, every notification has been
\* delivered and every loadData call has returned, the records of the view
\* are the rows of the store.
C21_ReloadWins ==
  (tasks = <<>> /\ reloads = <<>> /\ notif = 0) => leads = SelectLeads(store)

-----------------------------------------------------------------------------
(* Properties of the clipboard keys *)

\* C23: when the clipboard refuses writeText or readText the handler catches
\* the refusal, and the step issues no write, pushes no change-set and
\* clears no cell.
C23_RefusalIsNoop ==
  [][(obs'.clip # obs.clip /\ obs'.clip \in {"caught", "unhandled"}) =>
       /\ obs'.clip = "caught"
       /\ UNCHANGED <<store, tasks, undoStack, redoStack, leads>>]_vars

-----------------------------------------------------------------------------
(* Properties of the bulk deletes *)

C25_RoundTrip ==
  obs.text # <<>> =>
    parseClipboard(buildClipboardText(parseClipboard(obs.text), FALSE, 0))
      = parseClipboard(obs.text)

\* the text "a TAB LF" is on the clipboard and has been pasted as one row of
\* two cells
C25_Witness ==
  /\ obs.text = <<"a", TAB, LF>>
  /\ \E i \in 1..Len(tasks) :
       /\ tasks[i].call.via = "paste"
       /\ tasks[i].call.matrix = << << <<"a">>, <<>> >> >>

\* the newest task, started by the step
Started == tasks'[Len(tasks')]

\* a paste step: it starts an applyMatrix that came from a paste
PasteStep ==
  /\ Len(tasks') = Len(tasks) + 1
  /\ Started.call.via = "paste"

\* C26: decoding never fails; the empty text decodes to a matrix of zero
\* rows, so that pasting it updates nothing, inserts nothing and records no
\* change, and every other text decodes to at least one row
C26_EmptyTextIsNoop ==
  [][/\ obs.text # <<>> => Len(parseClipboard(obs.text)) >= 1
     /\ (PasteStep /\ obs.text = <<>>) =>
          /\ Len(Started.call.matrix) = 0
          /\ Started.pending = {} /\ Started.inserts = <<>> /\ Started.changes = <<>>]_vars

\* the lines of a text without the empty lines at its end
RECURSIVE dropTrailingEmpty(_)
dropTrailingEmpty(lines) ==
  IF lines # <<>> /\ lines[Len(lines)] = <<>>
  THEN dropTrailingEmpty(SubSeq(lines, 1, Len(lines) - 1))
  ELSE lines

\* C27: CRLF and CR count as LF, the text is split on LF and only the empty
\* lines at its end are dropped: row k of the pasted matrix is line k of the
\* text, split on TAB, also where an empty line stands before a filled one
C27_RowsAreLines ==
  [][PasteStep =>
       LET kept == dropTrailingEmpty(textLines(obs.text))
       IN kept # <<>> =>
            Started.call.matrix = [k \in 1..Len(kept) |-> split(kept[k], TAB)]]_vars

\* a fill step: it starts the applyMatrix of a fill
FillStep ==
  /\ Len(tasks') = Len(tasks) + 1
  /\ Started.call.via = "fill"

\* the destination of the fill the step starts
FillDest ==
  Rect(Started.call.col, Started.call.row,
       Len(Started.call.matrix[1]), Len(Started.call.matrix))

\* the fill goes down a source of one column that has two cells or more
FillsDown(src, dest) ==
  /\ src.width = 1 /\ src.height >= 2
  /\ dest.width = 1 /\ dest.x = src.x /\ dest.y = src.y /\ dest.height >= src.height

\* the fill goes right along a source of one row that has two cells or more
FillsRight(src, dest) ==
  /\ src.height = 1 /\ src.width >= 2
  /\ dest.height = 1 /\ dest.x = src.x /\ dest.y = src.y /\ dest.width >= src.width

\* the values of the source along the axis of the fill, as the view shows
\* them when the fill starts
SourceValues(src) ==
  LET fl == filteredLeads(leads, searchQuery)
      of == orderedFields(fields, prefs)
  IN IF src.width = 1
     THEN [i \in 1..src.height |-> getCellValue(fl, of, src.y + i - 1, src.x)]
     ELSE [i \in 1..src.width |-> getCellValue(fl, of, src.y, src.x + i - 1)]

\* the values the started fill writes along its axis
FilledValues(src) ==
  IF src.width = 1
  THEN [k \in 1..Len(Started.call.matrix) |-> Started.call.matrix[k][1]]
  ELSE Started.call.matrix[1]

\* a written number: text that is not blank and that Number reads
IsNumber(v) == v # <<>> /\ trim(v) # <<>> /\ ~Number(v).nan

\* C28: when a fill continues a source of one column or of one row whose
\* first two values are the numbers a and b, cell k of the destination,
\* counted from 0 along the fill, receives a + k * (b - a)
C28_NumberSeries ==
  [][FillStep =>
       LET src == obs'.source
           sv == SourceValues(src)
           a == Number(sv[1]).n
           b == Number(sv[2]).n
       IN ((FillsDown(src, FillDest) \/ FillsRight(src, FillDest))
            /\ IsNumber(sv[1]) /\ IsNumber(sv[2])) =>
          \A k \in 0..(Len(FilledValues(src)) - 1) :
             FilledValues(src)[k + 1] = String(a + k * (b - a))]_vars

\* a written date: text that is not blank and that Date reads
IsDate(v) == v # <<>> /\ ~Date(v).nan

\* C29: when a fill continues a source of one column or of one row whose
\* first two values are not both numbers and are both dates, cell k of the
\* destination receives the first date moved on by k times the days between
\* the two
C29_DateSeries ==
  [][FillStep =>
       LET src == obs'.source
           sv == SourceValues(src)
           d1 == Date(sv[1]).day
           d2 == Date(sv[2]).day
       IN ((FillsDown(src, FillDest) \/ FillsRight(src, FillDest))
            /\ ~(IsNumber(sv[1]) /\ IsNumber(sv[2]))
            /\ IsDate(sv[1]) /\ IsDate(sv[2])) =>
          \A k \in 0..(Len(FilledValues(src)) - 1) :
             /\ IsDate(FilledValues(src)[k + 1])
             /\ Date(FilledValues(src)[k + 1]).day = d1 + k * (d2 - d1)]_vars

\* the values of a progression of trailing digits: the prefix and the width
\* of t, and its number moved on by d from cell to cell
Progression(t, d, n) ==
  [k \in 1..n |-> t.prefix \o padStart(String(t.num + (k - 1) * d), t.width)]

\* C30: the progression of trailing digits is used exactly when the first
\* two values of the source are neither both numbers nor both dates and both
\* end with digits of the same width; cell k then keeps the prefix and the
\* width and carries the first number plus k times the difference
C30_SuffixSeries ==
  [][FillStep =>
       LET src == obs'.source
           sv == SourceValues(src)
           fv == FilledValues(src)
           t1 == parseTrailing(sv[1])
           t2 == parseTrailing(sv[2])
           second == parseTrailing(fv[2])
           numbers == IsNumber(sv[1]) /\ IsNumber(sv[2])
           dates == IsDate(sv[1]) /\ IsDate(sv[2])
           suffixed == ~numbers /\ ~dates /\ t1.ok /\ t2.ok /\ t1.width = t2.width
           \* the digits of the first value are moved on from cell to cell
           used == /\ t1.ok /\ second.ok /\ second.num # t1.num
                   /\ fv = Progression(t1, second.num - t1.num, Len(fv))
           \* the values are the days that follow the first date
           days == \A k \in 1..Len(fv) :
                     /\ IsDate(fv[k])
                     /\ Date(fv[k]).day
                          = Date(sv[1]).day + (k - 1) * (Date(sv[2]).day - Date(sv[1]).day)
       IN (FillsDown(src, FillDest) \/ FillsRight(src, FillDest)) =>
            CASE suffixed -> fv = Progression(t1, t2.num - t1.num, Len(fv))
              [] numbers -> TRUE
              [] dates /\ ~numbers -> used => days
              [] OTHER -> ~used]_vars

\* the fill goes on along a source of one column or of one row, which may
\* hold a single cell
FillsAlong(src, dest) ==
  /\ dest.x = src.x /\ dest.y = src.y
  /\ \/ src.width = 1 /\ dest.width = 1 /\ dest.height >= src.height
     \/ src.height = 1 /\ src.width > 1 /\ dest.height = 1 /\ dest.width >= src.width

\* C31: when the first two values of a source of one column or of one row
\* are not both numbers, not both dates and not both ending with digits of
\* one width, a source of a single value included, cell k of the
\* destination receives the source value k modulo the source length
C31_CycleSeries ==
  [][FillStep =>
       LET src == obs'.source
           sv == SourceValues(src)
           fv == FilledValues(src)
           two == Len(sv) >= 2
           t1 == parseTrailing(sv[1])
           t2 == parseTrailing(sv[2])
           numbers == two /\ IsNumber(sv[1]) /\ IsNumber(sv[2])
           dates == two /\ IsDate(sv[1]) /\ IsDate(sv[2])
           suffixed == two /\ t1.ok /\ t2.ok /\ t1.width = t2.width
       IN (FillsAlong(src, FillDest) /\ ~numbers /\ ~dates /\ ~suffixed) =>
            \A k \in 0..(Len(fv) - 1) : fv[k + 1] = sv[(k % Len(sv)) + 1]]_vars

-----------------------------------------------------------------------------
(* Properties of the bulk operations of the master view *)

\* the step starts, advances or returns a bulk operation
BulkStep ==
  \/ Begins("bulk")
  \/ \E i \in 1..Len(tasks) : tasks[i].kind = "bulk" /\ tasks' # tasks

\* C32: no step of applyBulkMethod or deleteSelected, from the click to the
\* return, after an accepted or a failed request, changes the undo stack or
\* the redo stack
C32_BulkKeepsHistory == [][BulkStep => UNCHANGED <<undoStack, redoStack>>]_vars

\* Apply has set the method of a local record and returned, and both stacks
\* hold a change-set
C32_Witness ==
  /\ tasks = <<>>
  /\ \E n \in 1..Len(leads) : leads[n].vals[K_outreach_method] \in BulkMethods
  /\ Len(undoStack) > 0
  /\ Len(redoStack) > 0

-----------------------------------------------------------------------------
(* Properties of the change tuples *)

\* C33: when the store executes an update of an applyMatrix call, every
\* change tuple the call recorded for the updated record has as prev the
\* value the store holds for that field just before the update
C33_PrevIsStored ==
  [][\A i \in 1..Len(tasks) :
       (/\ tasks[i].kind = "apply" /\ tasks[i].pc = "updates"
        /\ Len(tasks') = Len(tasks)
        /\ tasks'[i].pending # tasks[i].pending) =>
         \A u \in tasks[i].pending \ tasks'[i].pending :
           \A n \in 1..Len(tasks[i].changes) :
             LET change == tasks[i].changes[n]
             IN (change.id = u.id /\ u.id \in DOMAIN store) =>
                  change.prev = store[u.id][change.fieldKey]]_vars

\* C34: the records a bulk operation (Delete selected, Apply) is started for
\* are the records whose row markers the user has ticked
C34_TickedAreAffected ==
  [][Begins("bulk") => Started.delIds = grid.ticked]_vars

-----------------------------------------------------------------------------
(* Properties of the column order *)

\* C35: after a column was dragged from visible index i to visible index j,
\* the grid shows the columns it showed before with the one at i taken out
\* and put in at j: that field is at j, the others keep their order
C35_ColumnMoved ==
  obs.moved.from # obs.moved.to =>
    columnKeys(fields, prefs) = moveInArray(obs.moved.before, obs.moved.from, obs.moved.to)

-----------------------------------------------------------------------------
(* Properties of the rows a paste adds *)

\* C36: every row a running applyMatrix or grid paste is going to insert has
\* a name that is neither null nor the empty text
C36_InsertsHaveName ==
  \A i \in 1..Len(tasks) :
    \A n \in 1..Len(tasks[i].inserts) : Truthy(tasks[i].inserts[n].vals[K_name])

-----------------------------------------------------------------------------
(* Properties of the source of a fill *)

\* C37: the matrix a fill hands to applyMatrix holds, at every cell of the
\* source range, the value the record shown there has: what applyMatrix
\* writes to a source cell is its present value
C37_SourceKept ==
  [][FillStep =>
       LET src == obs'.source
           dest == FillDest
           fl == filteredLeads(leads, searchQuery)
           of == orderedFields(fields, prefs)
       IN \A r \in 0..(dest.height - 1), c \in 0..(dest.width - 1) :
            (/\ dest.y + r >= src.y /\ dest.y + r < src.y + src.height
             /\ dest.x + c >= src.x /\ dest.x + c < src.x + src.width
             /\ dest.y + r < Len(fl) /\ dest.x + c < Len(of)) =>
              CellValue(Started.call.matrix[r + 1][c + 1]) =
                fl[dest.y + r + 1].vals[of[dest.x + c + 1].field_key]]_vars

-----------------------------------------------------------------------------
(* Properties of the selection and its ranges *)

\* C38: in the table grid, when the list of ranges is not empty, the primary
\* selection is the last range of the list
C38_SelectionIsLastRange ==
  grid.ranges # <<>> => grid.selection = grid.ranges[Len(grid.ranges)]

-----------------------------------------------------------------------------
(* Properties of the row comparator *)

\* the entries the comparator is called on: the records with their index
SortEntries == {[lead |-> leads[i], idx |-> i - 1] : i \in 1..Len(leads)}

\* C39: under the sort rules in force the comparator orders the records
\* strictly and totally: two different entries are never equal, a before b
\* excludes b before a, and a before b before c gives a before c
C39_StrictTotalOrder ==
  \A a \in SortEntries, b \in SortEntries :
    /\ a # b => compareEntries(a, b, grid.sorts) # 0
    /\ compareEntries(a, b, grid.sorts) < 0 => compareEntries(b, a, grid.sorts) > 0
    /\ \A c \in SortEntries :
         (compareEntries(a, b, grid.sorts) < 0 /\ compareEntries(b, c, grid.sorts) < 0) =>
           compareEntries(a, c, grid.sorts) < 0

-----------------------------------------------------------------------------
(* Properties of the cell editor *)

\* C40: when handleCellUpdate returns after the store rejected the update,
\* the local records, the undo stack and the redo stack are as before, and
\* the grid is out of edit mode with an empty edit buffer; when it returns
\* after the store accepted, the undo stack has grown by exactly one
\* change-set, which holds one tuple. No earlier step of the handler touches
\* the records or the stacks.
C40_CellUpdate ==
  [][/\ \A i \in 1..Len(tasks) :
          (Completes(i, {"cell"}) /\ ~tasks[i].ok) =>
            /\ UNCHANGED <<leads, undoStack, redoStack>>
            /\ grid'.editingCell = InitGrid.editingCell
            /\ grid'.editValue = <<>>
     /\ \A i \in 1..Len(tasks) :
          (Completes(i, {"cell"}) /\ tasks[i].ok) =>
            /\ Len(undoStack') = Len(undoStack) + 1
            /\ Front(undoStack') = undoStack
            /\ Len(Last(undoStack').changes) = 1
            /\ Last(undoStack').insertedRows = <<>>
     /\ (Begins("cell") \/ \E i \in 1..Len(tasks) :
                              /\ tasks[i].kind = "cell" /\ tasks[i].pc = "updates"
                              /\ Len(tasks') = Len(tasks) /\ tasks'[i].pc = "done") =>
          UNCHANGED <<leads, undoStack, redoStack>>]_vars

\* an accepted edit was undone, and then the store rejected an edit: the
\* redo stack still holds the undone change-set
C40_Witness ==
  /\ tasks = <<>>
  /\ grid.edited = [outcome |-> "rejected", redo |-> 1]
  /\ grid.editingCell = InitGrid.editingCell
  /\ Len(redoStack) = 1
  /\ Len(redoStack[1].changes) = 1

====
